---------------------------- MODULE Spec2Model ----------------------------
(***************************************************************************)
(* A model of tame-tree: the address and change algebra of src/tree, and   *)
(* the single-threaded dispatch machinery of src/component (subscription   *)
(* manager, immediate publisher, change bus, hub).                          *)
(*                                                                         *)
(* Addresses are sequences of steps, Here being the empty sequence.         *)
(* Option<T> is a sequence of length 0 (None) or 1 (Some).                  *)
(* Option<bool> is one of the strings "Some(true)", "Some(false)", "None".  *)
(***************************************************************************)
EXTENDS Integers, Sequences, FiniteSets, TLC

-----------------------------------------------------------------------------
(* Bounds of the model                                                     *)

\* Largest child index used in an address step
MaxIndex == 1

\* Longest address (number of steps) drawn as an input
MaxAddrLen == 2

\* Number of top-level calls (publish, pump, flush, subscribe) in a run
MaxOps == 4

\* Largest integer published in the feedback scenario
MaxFeedback == 3

\* Number of changes published in a run, the ones callbacks publish included
MaxPublished == 4

\* Number of subscriptions a manager holds
MaxSubs == 3

\* Depth of the call stack
MaxDepth == 6

-----------------------------------------------------------------------------
(* src/tree/address.rs                                                     *)

Here == << >>

ChildAtIndex(i, rest) == <<[kind |-> "index", index |-> i, tag |-> ""]>> \o rest

ChildWithTag(t, rest) == <<[kind |-> "tag", index |-> 0, tag |-> t]>> \o rest

SomeTrue == "Some(true)"
SomeFalse == "Some(false)"
NoneBool == "None"

\* Option<bool>::unwrap_or(false)
unwrap_or_false(ob) == ob = SomeTrue

\* Variant: an ancestor test that holds only for proper ancestors
is_parent_of_proper(self, address) ==
    IF Len(self) < Len(address) /\ SubSeq(address, 1, Len(self)) = self
    THEN SomeTrue ELSE SomeFalse

\* Variant: an ancestor test that looks at the kind of the first steps before anything else
is_parent_of_kind_first(self, address) ==
    IF self # << >> /\ address # << >> /\ self[1].kind # address[1].kind THEN NoneBool
    ELSE IF Len(self) <= Len(address) /\ SubSeq(address, 1, Len(self)) = self
    THEN SomeTrue ELSE SomeFalse

\* Variant: an ancestor test that cannot decide when the other address is Here
is_parent_of_here_unknown(self, address) ==
    IF self = << >> THEN SomeTrue
    ELSE IF address = << >> THEN NoneBool
    ELSE IF SubSeq(address, 1, Len(self)) = self THEN SomeTrue ELSE SomeFalse

RECURSIVE is_parent_of(_, _)
is_parent_of(self, address) ==
    IF self = Here THEN SomeTrue
    ELSE IF address = Here THEN SomeFalse
    ELSE IF Head(self).kind # Head(address).kind THEN NoneBool
    ELSE IF Head(self).kind = "index"
         THEN IF Head(self).index = Head(address).index
              THEN is_parent_of(Tail(self), Tail(address))
              ELSE SomeFalse
         ELSE IF Head(self).tag = Head(address).tag
              THEN is_parent_of(Tail(self), Tail(address))
              ELSE SomeFalse

is_child_of(self, address) == is_parent_of(address, self)

\* TreeAddress::relative_to: Here never has a relative address, whatever the parent
RECURSIVE address_relative_to(_, _)
address_relative_to(self, parent_address) ==
    IF self = Here THEN << >>
    ELSE IF parent_address = Here THEN <<self>>
    ELSE IF Head(self).kind # Head(parent_address).kind THEN << >>
    ELSE IF Head(self).kind = "index"
         THEN IF Head(self).index = Head(parent_address).index
              THEN address_relative_to(Tail(self), Tail(parent_address))
              ELSE << >>
         ELSE IF Head(self).tag = Head(parent_address).tag
              THEN address_relative_to(Tail(self), Tail(parent_address))
              ELSE << >>

RECURSIVE parent(_)
parent(self) ==
    IF self = Here THEN Here
    ELSE IF Tail(self) = Here THEN Here
    ELSE <<Head(self)>> \o parent(Tail(self))

RECURSIVE to_tree_address_then(_, _)
to_tree_address_then(self, then) ==
    IF self = Here THEN then
    ELSE <<Head(self)>> \o to_tree_address_then(Tail(self), then)

\* The final step of an address, as a one-step address (Here for Here)
RECURSIVE last_part(_)
last_part(self) ==
    IF self = Here THEN Here
    ELSE IF Tail(self) = Here THEN self
    ELSE last_part(Tail(self))

-----------------------------------------------------------------------------
(* src/tree/basictree.rs, src/tree/treenode_index.rs                       *)

Nothing == << >>
IntValue(n) == <<n>>

\* TreeValue::to_int(default)
to_int(value, default) == IF value = Nothing THEN default ELSE value[1]

BasicTree(tag, value, child, sibling) ==
    [tag |-> tag, value |-> value, child |-> child, sibling |-> sibling]

\* BasicTree::new("", ()): the placeholder node
EmptyNode == BasicTree("", Nothing, << >>, << >>)

from_with_child(node, new_child) == [node EXCEPT !.child = <<new_child>>]

from_with_sibling(node, new_sibling) == [node EXCEPT !.sibling = <<new_sibling>>]

set_child_ref(node, new_child) == [node EXCEPT !.child = <<new_child>>]

set_sibling_ref(node, new_sibling) == [node EXCEPT !.sibling = <<new_sibling>>]

clear_child(node) == [node EXCEPT !.child = << >>]

clear_sibling(node) == [node EXCEPT !.sibling = << >>]

\* usize::lookup_index, from an Option<TreeRef> chain position
RECURSIVE lookup_chain_index(_, _)
lookup_chain_index(current_child, pos) ==
    IF current_child = << >> THEN << >>
    ELSE IF pos = 0 THEN current_child
    ELSE lookup_chain_index(current_child[1].sibling, pos - 1)

\* &str::lookup_index: the first child carrying the tag
RECURSIVE lookup_chain_tag(_, _)
lookup_chain_tag(current_child, tag) ==
    IF current_child = << >> THEN << >>
    ELSE IF current_child[1].tag = tag THEN current_child
    ELSE lookup_chain_tag(current_child[1].sibling, tag)

\* TreeAddress::lookup_index (get_child_ref_at with an address)
RECURSIVE lookup_index(_, _)
lookup_index(address, parent_node) ==
    IF address = Here THEN <<parent_node>>
    ELSE LET found == IF Head(address).kind = "index"
                      THEN lookup_chain_index(parent_node.child, Head(address).index)
                      ELSE lookup_chain_tag(parent_node.child, Head(address).tag)
         IN IF found = << >> THEN << >>
            ELSE lookup_index(Tail(address), found[1])

-----------------------------------------------------------------------------
(* src/tree/change.rs                                                      *)

\* TreeChange::new
TreeChange(root, change_type, replacement_tree) ==
    [root |-> root, change_type |-> change_type, replacement_tree |-> replacement_tree]

perform_replacement(node, change_type, replacement_tree) ==
    IF change_type = "Child"
    THEN IF replacement_tree # << >>
         THEN set_child_ref(node, replacement_tree[1])
         ELSE clear_child(node)
    ELSE IF replacement_tree # << >>
         THEN set_sibling_ref(node, replacement_tree[1])
         ELSE clear_child(node)

\* The first loop of the ChildAtIndex arm: the stack of preceding siblings,
\* placeholders standing in for the missing ones, and the node reached
RECURSIVE walk_to_index(_, _, _)
walk_to_index(siblings, current, remaining) ==
    IF remaining = 0 THEN [siblings |-> siblings, current |-> current]
    ELSE walk_to_index(
            Append(siblings, IF current = << >> THEN EmptyNode ELSE current[1]),
            IF current = << >> THEN << >> ELSE current[1].sibling,
            remaining - 1)

\* The first loop of the ChildWithTag arm: stops at the first child with the tag
RECURSIVE walk_to_tag(_, _, _)
walk_to_tag(siblings, current, child_tag) ==
    IF current = << >> THEN [siblings |-> siblings, current |-> current]
    ELSE IF current[1].tag = child_tag THEN [siblings |-> siblings, current |-> current]
    ELSE walk_to_tag(Append(siblings, current[1]), current[1].sibling, child_tag)

\* "Pop siblings to generate the new child item"
RECURSIVE pop_siblings(_, _)
pop_siblings(siblings, current) ==
    IF siblings = << >> THEN current
    ELSE pop_siblings(SubSeq(siblings, 1, Len(siblings) - 1),
                      from_with_sibling(siblings[Len(siblings)], current))

RECURSIVE perform_apply(_, _, _, _)
perform_apply(original_tree, address, change_type, replacement_tree) ==
    IF address = Here
    THEN perform_replacement(original_tree, change_type, replacement_tree)
    ELSE LET walked     == IF Head(address).kind = "index"
                           THEN walk_to_index(<< >>, original_tree.child, Head(address).index)
                           ELSE walk_to_tag(<< >>, original_tree.child, Head(address).tag)
             child_tree == IF walked.current = << >> THEN EmptyNode ELSE walked.current[1]
             new_child  == perform_apply(child_tree, Tail(address), change_type, replacement_tree)
         IN from_with_child(original_tree, pop_siblings(walked.siblings, new_child))

\* tree!("", original_tree): set_children_refs copies the child and clears its sibling
imaginary_root_of(original_tree) ==
    set_child_ref(EmptyNode, clear_sibling(original_tree))

apply(change, original_tree) ==
    LET new_imaginary_root ==
            perform_apply(imaginary_root_of(original_tree), change.root,
                          change.change_type, change.replacement_tree)
    IN IF new_imaginary_root.child = << >> THEN EmptyNode
       ELSE new_imaginary_root.child[1]

address_relative_to_tree_root(change) ==
    IF change.root = Here THEN Here
    ELSE IF Head(change.root).kind = "index" /\ Head(change.root).index = 0
         THEN Tail(change.root)
         ELSE Here

\* A variant that asks only whether the changed address is above the tested one
address_applies_downward(changing_address, testing_address) ==
    is_parent_of(changing_address, testing_address)

address_applies(changing_address, testing_address) ==
    LET is_parent_of_changing == is_parent_of(changing_address, testing_address)
    IN IF is_parent_of_changing \in {NoneBool, SomeFalse}
       THEN is_parent_of(testing_address, changing_address)
       ELSE is_parent_of_changing

applies_to_subtree(change, address) ==
    LET relative_root == address_relative_to_tree_root(change)
    IN IF change.change_type = "Child"
       THEN address_applies(relative_root, address)
       ELSE address_applies(parent(relative_root), address)

applies_to_child_of(change, address) ==
    LET relative_root == address_relative_to_tree_root(change)
    IN IF change.change_type = "Child"
       THEN is_parent_of(relative_root, address)
       ELSE is_parent_of(parent(relative_root), address)

applies_to_only(change, address) ==
    LET relative_root == address_relative_to_tree_root(change)
    IN IF change.change_type = "Child"
       THEN is_parent_of(relative_root, parent(address))
       ELSE is_parent_of(parent(relative_root), parent(address))

applies_to(change, address, extent) ==
    IF extent = "ThisNode" THEN applies_to_only(change, address)
    ELSE IF extent = "Children" THEN applies_to_child_of(change, address)
    ELSE applies_to_subtree(change, address)

relative_to_parent(change, parent_address) ==
    LET relative_root == address_relative_to_tree_root(change)
        new_root      == address_relative_to(relative_root, parent_address)
    IN IF new_root # << >>
       THEN <<TreeChange(ChildAtIndex(0, new_root[1]), change.change_type,
                         change.replacement_tree)>>
       ELSE << >>

relative_to_replacement_tree(change, tree_address) ==
    LET fake_root_node  == IF change.replacement_tree # << >>
                           THEN set_child_ref(EmptyNode, change.replacement_tree[1])
                           ELSE EmptyNode
        new_change_tree == lookup_index(tree_address, fake_root_node)
    IN <<TreeChange(Here, "Child", new_change_tree)>>

relative_to_child(change, child_address) ==
    LET relative_root         == address_relative_to_tree_root(change)
        root_relative_to_tree == address_relative_to(child_address, relative_root)
    IN IF root_relative_to_tree # << >>
       THEN relative_to_replacement_tree(change, root_relative_to_tree[1])
       ELSE << >>

relative_to_sibling(change, sibling_address) ==
    LET relative_root            == address_relative_to_tree_root(change)
        parent_address           == parent(relative_root)
        maybe_relative_to_parent == address_relative_to(sibling_address, parent_address)
    IN IF maybe_relative_to_parent = << >> THEN << >>
       ELSE LET relative_to_parent_ == maybe_relative_to_parent[1]
                last_part_of_root   == last_part(relative_root)
            IN IF Head(relative_to_parent_).kind = "index"
               THEN IF last_part_of_root # Here /\ Head(last_part_of_root).kind = "index"
                    THEN IF Head(relative_to_parent_).index > Head(last_part_of_root).index
                         THEN relative_to_replacement_tree(change,
                                ChildAtIndex(Head(relative_to_parent_).index
                                               - Head(last_part_of_root).index - 1,
                                             Tail(relative_to_parent_)))
                         ELSE << >>
                    ELSE << >>
               ELSE relative_to_replacement_tree(change, relative_to_parent_)

relative_to(change, address) ==
    LET relative_root == address_relative_to_tree_root(change)
    IN IF unwrap_or_false(is_parent_of(address, relative_root))
       THEN relative_to_parent(change, address)
       ELSE IF change.change_type = "Child"
               /\ unwrap_or_false(is_parent_of(relative_root, address))
            THEN relative_to_child(change, address)
            ELSE IF change.change_type = "Sibling"
                 THEN relative_to_sibling(change, address)
                 ELSE << >>

-----------------------------------------------------------------------------
(* The state of the dispatch machinery                                     *)

VARIABLES
    subs,        \* SubscriptionManager.subscriptions of every manager
    waiting,     \* TreeChangeBus.waiting: the pending list shared by all BusPublishers
    stack,       \* the call stack of the single thread, innermost call last
    borrowed,    \* the subscriptions whose callback RefCell is mutably borrowed
    panicked,    \* a RefCell borrow failed: the thread has panicked
    replica,     \* the local tree of a subscriber that applies what it is given
    golden,      \* the tree obtained by applying every published change in order
    comp_tree,   \* the accumulated input tree of the typed function component
    output,      \* OutputTreePublisher.tree
    nextId,      \* history: the number of changes published so far
    pumps,       \* history: the number of pumps started so far
    ops,         \* history: the number of top-level calls made so far
    publishedAt, \* history: per published change, when and through which handle
    handed,      \* history: the changes handed to call_subscriptions of the bus
    delivered,   \* history: the callback invocations, in order
    considered,  \* history: the (change, subscription) pairs a dispatch has decided
    config,      \* the inputs the run was set up with
    subscribedAt,\* history: per subscription, the dispatch it was added during (0: none)
    returned     \* what the last call of a pure function was given and what it returned

vars == <<subs, waiting, stack, borrowed, panicked, replica, golden, comp_tree,
          output, nextId, pumps, ops, publishedAt, handed, delivered, considered,
          config, subscribedAt, returned>>

Managers == {"bus", "imm1", "imm2", "rd", "wr"}

NoChange == TreeChange(Here, "Child", << >>)

\* A callback: what the closure given to subscribe does when it is called
Callback(kind, target, arg, addr) ==
    [kind |-> kind, target |-> target, arg |-> arg, addr |-> addr]

LogCallback == Callback("log", "", NoChange, Here)

\* ConsumerRegistration plus the closure registered with it
Subscription(address, extent, cb) ==
    [address |-> address, extent |-> extent, cb |-> cb]

Frame(op, mgr, items, pos, id, change, sub, phase) ==
    [op |-> op, mgr |-> mgr, items |-> items, pos |-> pos, id |-> id,
     change |-> change, sub |-> sub, phase |-> phase]

Top == stack[Len(stack)]

Pop == SubSeq(stack, 1, Len(stack) - 1)

ReplaceTop(frame) == [stack EXCEPT ![Len(stack)] = frame]

Running == stack # << >> /\ ~panicked

Idle == stack = << >> /\ ~panicked

-----------------------------------------------------------------------------
(* src/util/clonecell.rs, src/component/subscriptionmanager.rs             *)

\* CloneCell::get: a clone of the content
CloneCell_get(content) == content

\* Variant: a set that stores the new subscription alone
add_subscription_alone(subscriptions, new_callback) == <<new_callback>>

\* SubscriptionManager::add_subscription: get, push, set
add_subscription(subscriptions, new_callback) ==
    Append(CloneCell_get(subscriptions), new_callback)

\* Variant: a loop that walks the live subscription list instead of the clone
iterated_live(frame, live) == live

\* The list the for loop of call_subscriptions walks: the clone taken on entry
iterated(frame, live) == frame.items

\* Variant: a filter that lets every change through
call_filter_any(change, registration) == TRUE

\* The filter closure both publishers give to call_subscriptions
call_filter(change, registration) ==
    unwrap_or_false(applies_to(change, registration.address, registration.extent))

\* Variant: a cell that hands out a second mutable borrow
can_borrow_always(cell, borrows) == TRUE

\* RefCell::borrow_mut succeeds only when the cell is not already borrowed
can_borrow_mut(cell, borrows) == cell \notin borrows

\* Variant: a dispatch that walks the subscriptions there were when its pump began,
\* leaving out those added while an earlier change of the batch was dispatched
EnterCall_pump_snapshot(base, mgr, id, change) ==
    LET batch  == {base[Len(base)].items[i].id : i \in DOMAIN base[Len(base)].items}
        before == {k \in DOMAIN subs[mgr] : subscribedAt[mgr][k] \notin batch}
    IN Append(base, Frame("call", mgr, SubSeq(subs[mgr], 1, Cardinality(before)),
                          1, id, change, 0, ""))

\* call_subscriptions: on entry, clone the subscription list
EnterCall(base, mgr, id, change) ==
    Append(base, Frame("call", mgr, CloneCell_get(subs[mgr]), 1, id, change, 0, ""))

\* One turn of the for loop of call_subscriptions: the filter, the borrow, and the
\* closure registered by Consumer::subscribe (relative_to, then the callback)
CallNext ==
    /\ Running
    /\ Top.op = "call"
    /\ Top.pos <= Len(iterated(Top, subs[Top.mgr]))
    /\ LET possible_subscription == iterated(Top, subs[Top.mgr])[Top.pos]
           cell                  == <<Top.mgr, Top.pos>>
           advanced              == [Top EXCEPT !.pos = Top.pos + 1]
           maybe_relative_change == relative_to(Top.change, possible_subscription.address)
           decided(invoked)      ==
               Append(considered,
                      [mgr |-> Top.mgr, sub |-> Top.pos, change |-> Top.change,
                       invoked |-> invoked, arg |-> maybe_relative_change,
                       pump |-> pumps, id |-> Top.id,
                       of |-> Len(iterated(Top, subs[Top.mgr]))])
       IN IF ~call_filter(Top.change, possible_subscription)
          THEN /\ stack' = ReplaceTop(advanced)
               /\ considered' = decided(FALSE)
               /\ UNCHANGED <<borrowed, panicked, delivered>>
          ELSE IF ~can_borrow_mut(cell, borrowed)
          THEN /\ panicked' = TRUE
               /\ UNCHANGED <<stack, borrowed, delivered, considered>>
          ELSE IF maybe_relative_change = << >>
          THEN /\ stack' = ReplaceTop(advanced)
               /\ considered' = decided(FALSE)
               /\ UNCHANGED <<borrowed, panicked, delivered>>
          ELSE /\ stack' = Append(ReplaceTop(advanced),
                                  Frame("callback", Top.mgr, << >>, 0, Top.id,
                                        maybe_relative_change[1], Top.pos, "enter"))
               /\ borrowed' = borrowed \cup {cell}
               /\ delivered' = Append(delivered,
                                      [mgr |-> Top.mgr, sub |-> Top.pos, id |-> Top.id,
                                       pump |-> pumps, change |-> maybe_relative_change[1],
                                       depth |-> Len(stack)])
               /\ considered' = decided(TRUE)
               /\ UNCHANGED panicked
    /\ UNCHANGED <<subs, waiting, replica, golden, comp_tree, output, nextId, pumps,
                   ops, publishedAt, handed, config,
                   subscribedAt, returned>>

\* call_subscriptions returns when the loop has walked the list
CallReturn ==
    /\ Running
    /\ Top.op = "call"
    /\ Top.pos > Len(iterated(Top, subs[Top.mgr]))
    /\ stack' = Pop
    /\ UNCHANGED <<subs, waiting, borrowed, panicked, replica, golden, comp_tree,
                   output, nextId, pumps, ops, publishedAt, handed, delivered,
                   considered, config,
                   subscribedAt, returned>>

-----------------------------------------------------------------------------
(* src/component/bus_publisher.rs                                          *)

\* Variant: a pump that copies the pending list and leaves it in place
swap_waiting_keep(current) == [to_send |-> current, waiting |-> current]

\* mem::swap of the pending list with a fresh empty one
swap_waiting(current) == [to_send |-> current, waiting |-> << >>]

\* Variant: a publish that puts the change at the front of the pending list
publish_push_front(pending, entry) == <<entry>> \o pending

\* BusPublisher::publish: push onto the shared pending list
publish_push(pending, entry) == Append(pending, entry)

\* Variant: a pump that goes on into the list publishers are still filling
to_send_of_live(frame, live) == frame.items \o live

\* The list the for loop of pump walks: the one swapped out on entry
to_send_of(frame, live) == frame.items

\* TreeChangeBus::pump, on entry: swap the lists
EnterPump(base) ==
    /\ stack' = Append(base, Frame("pump", "bus", swap_waiting(waiting).to_send, 1, 0,
                                   NoChange, 0, ""))
    /\ waiting' = swap_waiting(waiting).waiting
    /\ pumps' = pumps + 1

\* One turn of the for loop of pump: call_subscriptions for the next change
PumpNext ==
    /\ Running
    /\ Top.op = "pump"
    /\ Top.pos <= Len(to_send_of(Top, waiting))
    /\ LET entry == to_send_of(Top, waiting)[Top.pos]
       IN /\ stack' = EnterCall(ReplaceTop([Top EXCEPT !.pos = Top.pos + 1]),
                                "bus", entry.id, entry.change)
          /\ handed' = Append(handed, [id |-> entry.id, pump |-> pumps])
    /\ UNCHANGED <<subs, waiting, borrowed, panicked, replica, golden, comp_tree,
                   output, nextId, pumps, ops, publishedAt, delivered, considered,
                   config,
                   subscribedAt, returned>>

PumpReturn ==
    /\ Running
    /\ Top.op = "pump"
    /\ Top.pos > Len(to_send_of(Top, waiting))
    /\ stack' = Pop
    /\ UNCHANGED <<subs, waiting, borrowed, panicked, replica, golden, comp_tree,
                   output, nextId, pumps, ops, publishedAt, handed, delivered,
                   considered, config,
                   subscribedAt, returned>>

\* Variant: a flush that returns while one change is still pending
FlushLoop_returns_early ==
    /\ Running
    /\ Top.op = "flush"
    /\ IF Len(waiting) <= 1
       THEN /\ stack' = Pop
            /\ UNCHANGED <<waiting, pumps>>
       ELSE EnterPump(stack)
    /\ UNCHANGED <<subs, borrowed, panicked, replica, golden, comp_tree, output,
                   nextId, ops, publishedAt, handed, delivered, considered, config,
                   subscribedAt, returned>>

\* One turn of the loop of flush: return on an empty pending list, else pump
FlushLoop ==
    /\ Running
    /\ Top.op = "flush"
    /\ IF Len(waiting) <= 0
       THEN /\ stack' = Pop
            /\ UNCHANGED <<waiting, pumps>>
       ELSE EnterPump(stack)
    /\ UNCHANGED <<subs, borrowed, panicked, replica, golden, comp_tree, output,
                   nextId, ops, publishedAt, handed, delivered, considered, config,
                   subscribedAt, returned>>

\* A publish onto the bus, with its history record
BusPublish(change, handle) ==
    /\ waiting' = publish_push(waiting, [id |-> nextId + 1, change |-> change])
    /\ nextId' = nextId + 1
    /\ publishedAt' = Append(publishedAt,
                             [pump |-> pumps, handle |-> handle, depth |-> Len(stack)])

-----------------------------------------------------------------------------
(* The callbacks: the closures user code and the components register       *)

CbOf(frame) == subs[frame.mgr][frame.sub].cb

\* The closure returns: its RefCell borrow ends and call_subscriptions goes on
Return(frame) ==
    /\ stack' = Pop
    /\ borrowed' = borrowed \ {<<frame.mgr, frame.sub>>}

InCallback(kind, phase) ==
    /\ Running
    /\ Top.op = "callback"
    /\ Top.phase = phase
    /\ CbOf(Top).kind = kind

\* A callback that only observes the change it is given
RunLog ==
    /\ InCallback("log", "enter")
    /\ Return(Top)
    /\ UNCHANGED <<subs, waiting, panicked, replica, golden, comp_tree, output, nextId,
                   pumps, ops, publishedAt, handed, delivered, considered, config,
                   subscribedAt, returned>>

\* A callback that owns a BusPublisher and may publish a change of its own on it
RunRepublish ==
    /\ InCallback("republish", "enter")
    /\ \E again \in BOOLEAN :
          IF again /\ nextId < MaxPublished
          THEN BusPublish(CbOf(Top).arg, 0)
          ELSE UNCHANGED <<waiting, nextId, publishedAt>>
    /\ Return(Top)
    /\ UNCHANGED <<subs, panicked, replica, golden, comp_tree, output, pumps, ops,
                   handed, delivered, considered, config,
                   subscribedAt, returned>>

\* A callback that owns a Consumer of its own manager and subscribes again on it
RunSubscribe ==
    /\ InCallback("subscribe", "enter")
    /\ IF Len(subs[Top.mgr]) < MaxSubs
       THEN /\ subs' = [subs EXCEPT ![Top.mgr] =
                           add_subscription(@, Subscription(Here, "SubTree", LogCallback))]
            /\ subscribedAt' = [subscribedAt EXCEPT ![Top.mgr] = Append(@, Top.id)]
       ELSE UNCHANGED <<subs, subscribedAt>>
    /\ Return(Top)
    /\ UNCHANGED <<waiting, panicked, replica, golden, comp_tree, output, nextId, pumps,
                   ops, publishedAt, handed, delivered, considered, config, returned>>

\* A callback that applies every change it is given to its local tree
\* (immediate_publisher.rs, can_consume_published_item)
RunReplica ==
    /\ InCallback("replica", "enter")
    /\ replica' = apply(Top.change, replica)
    /\ Return(Top)
    /\ UNCHANGED <<subs, waiting, panicked, golden, comp_tree, output, nextId, pumps,
                   ops, publishedAt, handed, delivered, considered, config,
                   subscribedAt, returned>>

\* A callback that owns an ImmediatePublisher and publishes on it:
\* ImmediatePublisher::publish is call_subscriptions, run before publish returns
RunNested ==
    /\ InCallback("nested", "enter")
    /\ IF Len(stack) + 2 <= MaxDepth
       THEN /\ stack' = EnterCall(ReplaceTop([Top EXCEPT !.phase = "exit"]),
                                  CbOf(Top).target, nextId + 1, CbOf(Top).arg)
            /\ nextId' = nextId + 1
       ELSE /\ stack' = ReplaceTop([Top EXCEPT !.phase = "exit"])
            /\ UNCHANGED nextId
    /\ UNCHANGED <<subs, waiting, borrowed, panicked, replica, golden, comp_tree, output,
                   pumps, ops, publishedAt, handed, delivered, considered, config,
                   subscribedAt, returned>>

\* The nested publish has returned, and so does the callback
RunNestedExit ==
    /\ InCallback("nested", "exit")
    /\ Return(Top)
    /\ UNCHANGED <<subs, waiting, panicked, replica, golden, comp_tree, output, nextId,
                   pumps, ops, publishedAt, handed, delivered, considered, config,
                   subscribedAt, returned>>

-----------------------------------------------------------------------------
(* The calls the program makes from the top level                          *)

TopLevel == Idle /\ ops < MaxOps

\* BusPublisher::publish through one of the handles created from the bus
TopPublish(change, handle) ==
    /\ TopLevel
    /\ nextId < MaxPublished
    /\ BusPublish(change, handle)
    /\ ops' = ops + 1
    /\ UNCHANGED <<subs, stack, borrowed, panicked, replica, golden, comp_tree, output,
                   pumps, handed, delivered, considered, config,
                   subscribedAt, returned>>

\* TreeChangeBus::pump
TopPump ==
    /\ TopLevel
    /\ EnterPump(stack)
    /\ ops' = ops + 1
    /\ UNCHANGED <<subs, borrowed, panicked, replica, golden, comp_tree, output, nextId,
                   publishedAt, handed, delivered, considered, config,
                   subscribedAt, returned>>

\* TreeChangeBus::flush
TopFlush ==
    /\ TopLevel
    /\ stack' = Append(stack, Frame("flush", "bus", << >>, 0, 0, NoChange, 0, ""))
    /\ ops' = ops + 1
    /\ UNCHANGED <<subs, waiting, borrowed, panicked, replica, golden, comp_tree, output,
                   nextId, pumps, publishedAt, handed, delivered, considered, config,
                   subscribedAt, returned>>

\* BusConsumer::subscribe and ImmediateConsumer::subscribe
TopSubscribe(mgr, subscription) ==
    /\ TopLevel
    /\ Len(subs[mgr]) < MaxSubs
    /\ subs' = [subs EXCEPT ![mgr] = add_subscription(@, subscription)]
    /\ subscribedAt' = [subscribedAt EXCEPT ![mgr] = Append(@, 0)]
    /\ ops' = ops + 1
    /\ UNCHANGED <<waiting, stack, borrowed, panicked, replica, golden, comp_tree, output,
                   nextId, pumps, publishedAt, handed, delivered, considered, config, returned>>

\* ImmediatePublisher::publish
TopImmPublish(mgr, change) ==
    /\ TopLevel
    /\ nextId < MaxPublished
    /\ stack' = EnterCall(stack, mgr, nextId + 1, change)
    /\ nextId' = nextId + 1
    /\ golden' = apply(change, golden)
    /\ ops' = ops + 1
    /\ UNCHANGED <<subs, waiting, borrowed, panicked, replica, comp_tree, output, pumps,
                   publishedAt, handed, delivered, considered, config,
                   subscribedAt, returned>>

-----------------------------------------------------------------------------
(* Inputs                                                                  *)

IndexStep(i) == [kind |-> "index", index |-> i, tag |-> ""]
TagStep(t) == [kind |-> "tag", index |-> 0, tag |-> t]

Tags == {"a"}

Steps == {IndexStep(i) : i \in 0..MaxIndex} \cup {TagStep(t) : t \in Tags}

\* Every address of at most n steps
AddressesUpTo(n) == UNION {[1..k -> Steps] : k \in 0..n}

\* ToTreeNode for i32 (encoder.rs): an untagged node holding the integer
IntNode(x) == BasicTree("", IntValue(x), << >>, << >>)

\* "empty".to_tree_node()
EmptyTree == BasicTree("empty", Nothing, << >>, << >>)

NoSubs == [m \in Managers |-> << >>]

\* No pure function has been called yet
NotCalled == [op |-> "none", value |-> << >>]

InitCommon ==
    /\ waiting = << >>
    /\ stack = << >>
    /\ borrowed = {}
    /\ panicked = FALSE
    /\ replica = EmptyTree
    /\ golden = EmptyTree
    /\ comp_tree = EmptyTree
    /\ output = EmptyTree
    /\ nextId = 0
    /\ pumps = 0
    /\ ops = 0
    /\ publishedAt = << >>
    /\ handed = << >>
    /\ delivered = << >>
    /\ considered = << >>
    /\ returned = NotCalled

-----------------------------------------------------------------------------
(* Spec: one bus, several publisher handles, callbacks that publish and    *)
(* subscribe while a pump is dispatching                                   *)

\* Two changes below the root: a subscriber at Here is given both, one at .1 only the second
BusChangeA == TreeChange(ChildAtIndex(0, ChildAtIndex(0, ChildAtIndex(0, Here))), "Child", << >>)
BusChangeB == TreeChange(ChildAtIndex(0, ChildAtIndex(1, ChildAtIndex(0, Here))), "Child", << >>)

BusSubscriptions ==
    { Subscription(Here, "SubTree", LogCallback),
      Subscription(ChildAtIndex(1, Here), "SubTree", LogCallback),
      Subscription(Here, "SubTree", Callback("republish", "bus", BusChangeB, Here)),
      Subscription(Here, "SubTree", Callback("subscribe", "bus", NoChange, Here)) }

Init ==
    /\ InitCommon
    /\ \E first \in BusSubscriptions : subs = [NoSubs EXCEPT !["bus"] = <<first>>]
    /\ subscribedAt = [m \in Managers |-> [i \in 1..Len(subs[m]) |-> 0]]
    /\ config = "bus"

\* The first publisher handle publishes changes below child 0, the second below child 1
HandleChange(handle) == IF handle = 1 THEN BusChangeA ELSE BusChangeB

Publish == \E handle \in 1..2 : TopPublish(HandleChange(handle), handle)

Pump == TopPump

Flush == TopFlush

Subscribe == \E subscription \in BusSubscriptions : TopSubscribe("bus", subscription)

Next ==
    \/ Publish
    \/ Pump
    \/ Flush
    \/ Subscribe
    \/ PumpNext
    \/ PumpReturn
    \/ FlushLoop
    \/ CallNext
    \/ CallReturn
    \/ RunLog
    \/ RunRepublish
    \/ RunSubscribe

Spec == Init /\ [][Next]_vars

-----------------------------------------------------------------------------
(* Properties of the bus                                                   *)

Ids(seq) == {seq[i].id : i \in DOMAIN seq}

\* The part of its list a pump on the stack has yet to hand over
Remaining(frame) ==
    IF frame.op = "pump" THEN SubSeq(frame.items, frame.pos, Len(frame.items)) ELSE << >>

\* How many times the change `id` occurs in a list of entries
Occurrences(seq, id) == Cardinality({i \in DOMAIN seq : seq[i].id = id})

\* C1: a change published while pump k is dispatching is not dispatched by pump k:
\* every change handed to the registry was published before the pump that hands it began
C1_PumpSkipsChangesPublishedDuringIt ==
    \A i \in DOMAIN handed : publishedAt[handed[i].id].pump < handed[i].pump

\* A change published by a callback during a pump has been dispatched (by a later pump)
C1_Witness ==
    \E i \in DOMAIN handed :
        /\ publishedAt[handed[i].id].depth > 0
        /\ publishedAt[handed[i].id].pump >= 1
        /\ handed[i].pump > publishedAt[handed[i].id].pump

\* C2: changes are handed to the registry in the order they were published,
\* whichever publisher handle they were published through
C2_DispatchOrderIsPublishOrder ==
    \A i, j \in DOMAIN handed : i < j => handed[i].id < handed[j].id

\* Two changes published through different handles were dispatched by the same pump
C2_Witness ==
    \E i, j \in DOMAIN handed :
        /\ i < j
        /\ handed[i].pump = handed[j].pump
        /\ publishedAt[handed[i].id].handle # publishedAt[handed[j].id].handle
        /\ publishedAt[handed[i].id].handle > 0
        /\ publishedAt[handed[j].id].handle > 0

\* C3: every published change is, at every moment, in exactly one place: pending,
\* in the list a running pump has still to hand over, or handed to the registry once;
\* it is handed over by the first pump that begins after it was published, and a
\* publish hands nothing over
C3_EachChangeHandedExactlyOnce ==
    /\ \A id \in 1..nextId :
          Occurrences(waiting, id) + Occurrences(handed, id)
            + Cardinality({<<f, i>> \in (DOMAIN stack) \X (1..MaxPublished) :
                              /\ i \in DOMAIN Remaining(stack[f])
                              /\ Remaining(stack[f])[i].id = id}) = 1
    /\ \A i \in DOMAIN handed : handed[i].pump = publishedAt[handed[i].id].pump + 1
    /\ Idle /\ waiting = << >> => Ids(handed) = 1..nextId

\* Three changes were published, two pumps ran, and everything has been handed over
C3_Witness ==
    /\ Idle
    /\ waiting = << >>
    /\ nextId >= 3
    /\ pumps >= 2
    /\ Len(handed) = nextId

\* C7: a subscription added while a dispatch is in progress is not invoked by that
\* dispatch
C7_NewSubscriptionNotInvokedByRunningDispatch ==
    \A i \in DOMAIN delivered :
        subscribedAt[delivered[i].mgr][delivered[i].sub] # delivered[i].id

\* A subscription added during the dispatch of one change was invoked for a later one
C7_Witness ==
    \E i \in DOMAIN delivered :
        /\ subscribedAt[delivered[i].mgr][delivered[i].sub] > 0
        /\ subscribedAt[delivered[i].mgr][delivered[i].sub] < delivered[i].id

\* The decisions call_subscriptions has taken for change `id` on manager `mgr`
DecisionsOf(mgr, id) ==
    {i \in DOMAIN considered : considered[i].mgr = mgr /\ considered[i].id = id}

\* The call_subscriptions for change `id` on manager `mgr` is on the stack
InProgress(mgr, id) ==
    \E f \in DOMAIN stack : stack[f].op = "call" /\ stack[f].mgr = mgr /\ stack[f].id = id

\* The filter closure gives true for the data of the entry the decision is about
FilterTrue(r) ==
    applies_to(r.change, subs[r.mgr][r.sub].address, subs[r.mgr][r.sub].extent) = SomeTrue

\* Decisions i and j belong to the same call_subscriptions
SameCall(i, j) ==
    considered[i].mgr = considered[j].mgr /\ considered[i].id = considered[j].id

\* The decisions that called a callback, in order
Invocations == SelectSeq(considered, LAMBDA r : r.invoked)

\* C24: call_subscriptions decides the entries of the list it cloned in insertion
\* order, each exactly once; it calls the callback of an entry exactly when the
\* filter gives true for the entry's data (the callback registered by subscribe
\* hands the change on when relative_to is Some), once per decision;
\* and neither add_subscription nor call_subscriptions removes an entry: the list
\* holds one entry per add_subscription, and a running call's clone is a prefix of it
C24_CallsMatchingEntriesInOrderOnce ==
    /\ \A i \in DOMAIN considered :
          LET r == considered[i]
          IN /\ r.sub <= r.of
             /\ IF i > 1 /\ SameCall(i - 1, i)
                THEN r.sub = considered[i - 1].sub + 1
                ELSE r.sub = 1 /\ \A j \in 1..(i - 1) : ~SameCall(j, i)
             /\ (i = Len(considered) \/ ~SameCall(i, i + 1)) /\ ~InProgress(r.mgr, r.id)
                   => r.sub = r.of
             /\ r.invoked <=> (r.arg # << >> /\ FilterTrue(r))
    /\ LET called == Invocations
       IN /\ Len(delivered) = Len(called)
          /\ \A d \in DOMAIN delivered :
                /\ delivered[d].mgr = called[d].mgr
                /\ delivered[d].id = called[d].id
                /\ delivered[d].sub = called[d].sub
    /\ \A m \in Managers : Len(subs[m]) = Len(subscribedAt[m])
    /\ \A f \in DOMAIN stack :
          stack[f].op = "call" =>
              /\ Len(stack[f].items) <= Len(subs[stack[f].mgr])
              /\ stack[f].items = SubSeq(subs[stack[f].mgr], 1, Len(stack[f].items))
              /\ \A i \in DOMAIN considered :
                    considered[i].mgr = stack[f].mgr /\ considered[i].id = stack[f].id
                        => considered[i].sub < stack[f].pos
              /\ stack[f].pos > 1 =>
                    \E i \in DOMAIN considered :
                        /\ considered[i].mgr = stack[f].mgr
                        /\ considered[i].id = stack[f].id
                        /\ considered[i].sub = stack[f].pos - 1

\* A call over three entries has returned: the filter was false for the first, whose
\* callback was not called, and true for the two after it, called in insertion order
C24_Witness ==
    /\ Idle
    /\ \E i, j, k \in DOMAIN considered :
          /\ considered[i].id = considered[j].id
          /\ considered[j].id = considered[k].id
          /\ considered[i].of = 3
          /\ considered[i].sub = 1 /\ ~FilterTrue(considered[i]) /\ ~considered[i].invoked
          /\ considered[j].sub = 2 /\ considered[j].invoked
          /\ considered[k].sub = 3 /\ considered[k].invoked
          /\ \E d, e \in DOMAIN delivered :
                /\ d < e
                /\ delivered[d].id = considered[i].id /\ delivered[d].sub = 2
                /\ delivered[e].id = considered[i].id /\ delivered[e].sub = 3

\* The pump that handed change `id` to the registry (0: none has)
PumpOf(id) ==
    IF \E h \in DOMAIN handed : handed[h].id = id
    THEN handed[CHOOSE h \in DOMAIN handed : handed[h].id = id].pump
    ELSE 0

\* Subscription k of the bus was added by a callback during the dispatch of change i,
\* and change j is a later change of the batch of the same pump
LaterInBatch(k, i, j) ==
    /\ k \in DOMAIN subs["bus"]
    /\ subscribedAt["bus"][k] = i
    /\ i > 0
    /\ j > i
    /\ PumpOf(j) > 0
    /\ PumpOf(j) = PumpOf(i)

\* C29: the bus clones its subscriptions once per change of a pump's batch: a
\* subscription added by a callback during the dispatch of change i is not invoked
\* for change i, and for every later change j of the same batch whose dispatch has
\* returned it was decided, and invoked exactly when change j applies to it
C29_SnapshotPerChange ==
    /\ \A d \in DOMAIN delivered :
          delivered[d].mgr = "bus" =>
              subscribedAt["bus"][delivered[d].sub] # delivered[d].id
    /\ \A r \in DOMAIN considered :
          considered[r].mgr = "bus" =>
              subscribedAt["bus"][considered[r].sub] # considered[r].id
    /\ \A k \in DOMAIN subs["bus"], i, j \in 1..nextId :
          LaterInBatch(k, i, j) /\ ~InProgress("bus", j) =>
              \E r \in DecisionsOf("bus", j) :
                  /\ considered[r].sub = k
                  /\ considered[r].invoked
                        <=> /\ FilterTrue(considered[r])
                            /\ relative_to(considered[r].change,
                                           subs["bus"][k].address) # << >>
                  /\ considered[r].invoked =>
                        \E d \in DOMAIN delivered :
                            /\ delivered[d].mgr = "bus"
                            /\ delivered[d].sub = k
                            /\ delivered[d].id = j

\* A pump dispatched two changes; a callback subscribed during the first, and the new
\* subscription was invoked for the second
C29_Witness ==
    /\ Idle
    /\ \E k \in DOMAIN subs["bus"], i, j \in 1..nextId :
          /\ LaterInBatch(k, i, j)
          /\ \E d \in DOMAIN delivered :
                /\ delivered[d].mgr = "bus"
                /\ delivered[d].sub = k
                /\ delivered[d].id = j
                /\ delivered[d].pump = PumpOf(i)

-----------------------------------------------------------------------------
(* SpecDispatch: one change, one subscription (A, E); the change is        *)
(* published once, on the bus (and pumped) or on an immediate publisher    *)

Extents == {"ThisNode", "Children", "SubTree"}

\* A replacement with a tagged child, so that addresses into it resolve
SmallTree == BasicTree("r", IntValue(1), <<BasicTree("a", IntValue(2), << >>, << >>)>>, << >>)

\* Change roots: the imaginary root, everything below its child 0, and one address
\* that is not below child 0
ChangeRoots ==
    {Here, ChildAtIndex(1, Here)}
        \cup {ChildAtIndex(0, a) : a \in AddressesUpTo(MaxAddrLen)}

DispatchChanges ==
    {TreeChange(root, type, repl) :
        root \in ChangeRoots, type \in {"Child", "Sibling"}, repl \in {<< >>, <<SmallTree>>}}

InitDispatch ==
    /\ InitCommon
    /\ \E address \in AddressesUpTo(MaxAddrLen), extent \in Extents,
          change \in DispatchChanges :
          /\ config = [address |-> address, extent |-> extent, change |-> change]
          /\ subs = [NoSubs EXCEPT
                       !["bus"] = <<Subscription(address, extent, LogCallback)>>,
                       !["imm1"] = <<Subscription(address, extent, LogCallback)>>]
    /\ subscribedAt = [m \in Managers |-> [i \in 1..Len(subs[m]) |-> 0]]

DispatchBusPublish == nextId = 0 /\ TopPublish(config.change, 1)

DispatchImmPublish == nextId = 0 /\ TopImmPublish("imm1", config.change)

\* The pump that dispatches the change
DispatchPump == waiting # << >> /\ TopPump

NextDispatch ==
    \/ DispatchBusPublish
    \/ DispatchImmPublish
    \/ DispatchPump
    \/ PumpNext
    \/ PumpReturn
    \/ CallNext
    \/ CallReturn
    \/ RunLog

SpecDispatch == InitDispatch /\ [][NextDispatch]_vars

\* What the registry must do with change c for registration reg
MustInvoke(c, reg) ==
    /\ applies_to(c, reg.address, reg.extent) = SomeTrue
    /\ relative_to(c, reg.address) # << >>

DeliveriesTo(mgr, sub) == {i \in DOMAIN delivered : delivered[i].mgr = mgr /\ delivered[i].sub = sub}

DecisionsOn(mgr, sub) == {i \in DOMAIN considered : considered[i].mgr = mgr /\ considered[i].sub = sub}

\* The dispatch of the change has returned
Dispatched == Idle /\ nextId = 1 /\ waiting = << >>

\* C6: the callback of (A, E) is invoked iff applies_to(A, E) is Some(true) and
\* relative_to(A) is Some, with relative_to(A) as its argument; a None from either
\* suppresses the callback
C6_InvokedIffAppliesAndRelative ==
    /\ \A i \in DOMAIN considered :
          LET r   == considered[i]
              reg == subs[r.mgr][r.sub]
          IN r.invoked <=> MustInvoke(r.change, reg)
    /\ \A i \in DOMAIN delivered :
          LET d   == delivered[i]
              reg == subs[d.mgr][d.sub]
          IN /\ MustInvoke(config.change, reg)
             /\ d.change = relative_to(config.change, reg.address)[1]
    /\ Dispatched =>
          \A m \in {"bus", "imm1"} :
              considered # << >> /\ considered[1].mgr = m =>
                  /\ Cardinality(DecisionsOn(m, 1)) = 1
                  /\ Cardinality(DeliveriesTo(m, 1)) =
                        IF MustInvoke(config.change, subs[m][1]) THEN 1 ELSE 0

\* A dispatch has invoked the callback with a change translated to a non-trivial address
C6_Witness ==
    /\ Dispatched
    /\ config.address # Here
    /\ Len(delivered) = 1
    /\ delivered[1].change # config.change

\* A dispatch was suppressed because applies_to gave None
C6_WitnessNone ==
    /\ Dispatched
    /\ applies_to(config.change, config.address, config.extent) = NoneBool
    /\ Len(considered) = 1
    /\ delivered = << >>

-----------------------------------------------------------------------------
(* SpecImm: immediate publishers whose callbacks publish again             *)

ImmChangeA == TreeChange(ChildAtIndex(0, ChildAtIndex(0, ChildAtIndex(0, Here))), "Child", <<SmallTree>>)
ImmChangeB == TreeChange(ChildAtIndex(0, ChildAtIndex(1, ChildAtIndex(0, Here))), "Child", <<SmallTree>>)

ImmChanges == {ImmChangeA, ImmChangeB}

\* imm1 holds a subscription whose callback publishes `arg` on `target`, and an
\* observer; imm2 holds an observer
InitImm ==
    /\ InitCommon
    /\ \E address \in {Here, ChildAtIndex(1, Here)}, target \in {"imm1", "imm2"},
          arg \in ImmChanges :
          /\ config = [address |-> address, target |-> target, arg |-> arg]
          /\ subs = [NoSubs EXCEPT
                       !["imm1"] = <<Subscription(address, "SubTree",
                                                  Callback("nested", target, arg, Here)),
                                     Subscription(Here, "SubTree", LogCallback)>>,
                       !["imm2"] = <<Subscription(Here, "SubTree", LogCallback)>>]
    /\ subscribedAt = [m \in Managers |-> [i \in 1..Len(subs[m]) |-> 0]]

ImmPublish == \E mgr \in {"imm1", "imm2"}, change \in ImmChanges : TopImmPublish(mgr, change)

NextImm ==
    \/ ImmPublish
    \/ CallNext
    \/ CallReturn
    \/ RunLog
    \/ RunNested
    \/ RunNestedExit

SpecImm == InitImm /\ [][NextImm]_vars

\* The callbacks that have been entered and have not returned
RunningCallbacks == {f \in DOMAIN stack : stack[f].op = "callback"}

\* The subscription the innermost call_subscriptions is at
AtSubscription == <<Top.mgr, Top.pos>>

C8_WitnessOther ==
    /\ Idle
    /\ \E i \in DOMAIN delivered : delivered[i].mgr = "imm2" /\ delivered[i].depth >= 3

-----------------------------------------------------------------------------
(* SpecFeedback: a typed FnMut(&i32) -> i32 component on a bus, publishing *)
(* to an OutputTreePublisher and feeding x-1 back to the bus while x > 0   *)

\* Decoder::read_i32 on the root of the tree: Ok(x) as <<x>>, Err as << >>
read_i32(tree) == IF tree.value = Nothing THEN << >> ELSE <<tree.value[1]>>

\* OutputTreePublisher::publish
output_publish(change, tree) == apply(change, tree)

\* The closure into_component subscribes: apply the change to the accumulated tree,
\* decode it, and on success run the action (tend_to_zero of can_have_feedback: publish
\* x-1 on the feedback publisher when x > 0, return x) and publish the result
RunComponent ==
    /\ InCallback("component", "enter")
    /\ LET tree           == apply(Top.change, comp_tree)
           decoded_or_err == read_i32(tree)
       IN /\ comp_tree' = tree
          /\ IF decoded_or_err # << >>
             THEN LET x == decoded_or_err[1]
                  IN /\ IF x > 0
                        THEN BusPublish(TreeChange(Here, "Child", <<IntNode(x - 1)>>), 2)
                        ELSE UNCHANGED <<waiting, nextId, publishedAt>>
                     /\ output' = output_publish(
                                      TreeChange(Here, "Child", <<IntNode(x)>>), output)
             ELSE UNCHANGED <<waiting, nextId, publishedAt, output>>
    /\ Return(Top)
    /\ UNCHANGED <<subs, panicked, replica, golden, pumps, ops, handed, delivered,
                   considered, config, subscribedAt, returned>>

\* The run publishes the integer n once: as the whole tree (root Here), or as the
\* first child of the tree's root
InitFeedback ==
    /\ InitCommon
    /\ \E n \in 0..MaxFeedback,
          root \in {Here, ChildAtIndex(0, ChildAtIndex(0, Here))} :
          config = [n |-> n, root |-> root]
    /\ subs = [NoSubs EXCEPT
                 !["bus"] = <<Subscription(Here, "SubTree",
                                           Callback("component", "bus", NoChange, Here))>>]
    /\ subscribedAt = [m \in Managers |-> [i \in 1..Len(subs[m]) |-> 0]]

FeedbackPublish ==
    /\ nextId = 0
    /\ TopPublish(TreeChange(config.root, "Child", <<IntNode(config.n)>>), 1)

NextFeedback ==
    \/ FeedbackPublish
    \/ Pump
    \/ Flush
    \/ PumpNext
    \/ PumpReturn
    \/ FlushLoop
    \/ CallNext
    \/ CallReturn
    \/ RunComponent

SpecFeedback == InitFeedback /\ [][NextFeedback]_vars

\* output_reader().get_value().to_int(0)
OutputValue == to_int(output.value, 0)

\* C4: after publishing n as the whole tree, the k-th pump (1 <= k <= n+1) leaves the
\* output at n-k+1, and once the pending list is empty the output is 0
C4_FeedbackConverges ==
    Idle /\ config.root = Here /\ nextId >= 1 /\ pumps >= 1 =>
        /\ pumps <= config.n + 1 => OutputValue = config.n - pumps + 1
        /\ waiting = << >> => OutputValue = 0

\* What the code does instead: the component's callback never runs for a change of
\* the whole tree, so the output stays at its initial value
C4_Observed ==
    config.root = Here => output = EmptyTree /\ delivered = << >> /\ nextId <= 1

\* n = 1 was published as the whole tree and one pump has returned
C4_ObservedWitness ==
    Idle /\ config.root = Here /\ config.n = 1 /\ nextId = 1 /\ pumps = 1 /\ handed # << >>

-----------------------------------------------------------------------------
(* SpecReplica: a subscriber at (A, SubTree) of an immediate publisher     *)
(* that applies every change it is given to its own tree                   *)

\* ("add", 1).to_tree_node()
JustAdd == BasicTree("add", IntValue(1), << >>, << >>)

\* tree!("root", "some_other_tree", tree!("consumer_target", ("add", 2)))
WholeTree ==
    BasicTree("root", Nothing,
        <<BasicTree("some_other_tree", Nothing, << >>,
            <<BasicTree("consumer_target", Nothing,
                <<BasicTree("add", IntValue(2), << >>, << >>)>>, << >>)>>)>>,
        << >>)

\* Changes of the whole tree, of the root's children, of the children of the root's
\* second child, and below that
ReplicaChanges ==
    { TreeChange(Here, "Child", <<WholeTree>>),
      TreeChange(ChildAtIndex(0, Here), "Child", <<JustAdd>>),
      TreeChange(ChildAtIndex(0, ChildAtIndex(1, Here)), "Child", <<JustAdd>>),
      TreeChange(ChildAtIndex(0, ChildAtIndex(1, ChildAtIndex(0, Here))), "Child", <<JustAdd>>) }

InitReplica ==
    /\ InitCommon
    /\ \E address \in AddressesUpTo(MaxAddrLen) :
          /\ config = [address |-> address]
          /\ subs = [NoSubs EXCEPT
                       !["imm1"] = <<Subscription(address, "SubTree",
                                                  Callback("replica", "imm1", NoChange, Here))>>]
    /\ subscribedAt = [m \in Managers |-> [i \in 1..Len(subs[m]) |-> 0]]

ReplicaPublish == \E change \in ReplicaChanges : TopImmPublish("imm1", change)

NextReplica ==
    \/ ReplicaPublish
    \/ CallNext
    \/ CallReturn
    \/ RunReplica

SpecReplica == InitReplica /\ [][NextReplica]_vars

\* The children of the node at `address` of `tree` (none when there is no such node)
ChildrenAt(address, tree) ==
    LET found == lookup_index(address, tree)
    IN IF found = << >> THEN << >> ELSE found[1].child

\* C5: whenever a publish has returned, what the subscriber at A holds below its root
\* is what the publisher's tree holds below the node at A
C5_ReplicaEqualsSubtree ==
    Idle => replica.child = ChildrenAt(config.address, golden)

\* The subscriber at address 1 was not given the change of the children of node 1
C5_Stale ==
    /\ Idle
    /\ config.address = ChildAtIndex(1, Here)
    /\ nextId = 1
    /\ ChildrenAt(config.address, golden) = <<JustAdd>>
    /\ replica = EmptyTree

-----------------------------------------------------------------------------
(* src/component/hub.rs                                                    *)
(* SpecHub: a hub with one read_from(A) consumer, observed by a            *)
(* (Here, SubTree) subscriber, and one publish_to(B) publisher             *)

\* The closure read_from subscribes on the bus at (A, SubTree): publish the change
\* on the immediate publisher behind the consumer it returned
RunHubRead ==
    /\ InCallback("hubread", "enter")
    /\ stack' = EnterCall(ReplaceTop([Top EXCEPT !.phase = "exit"]),
                          CbOf(Top).target, Top.id, Top.change)
    /\ UNCHANGED <<subs, waiting, borrowed, panicked, replica, golden, comp_tree, output,
                   nextId, pumps, ops, publishedAt, handed, delivered, considered, config,
                   subscribedAt, returned>>

\* publisher.publish has returned, and so does the closure
RunHubReadExit ==
    /\ InCallback("hubread", "exit")
    /\ Return(Top)
    /\ UNCHANGED <<subs, waiting, panicked, replica, golden, comp_tree, output, nextId,
                   pumps, ops, publishedAt, handed, delivered, considered, config,
                   subscribedAt, returned>>

\* The closure publish_to subscribes at (Here, SubTree) on its immediate publisher:
\* change.relative_to(&target_address), and a bus publish of the result if there is one
RunHubWrite ==
    /\ InCallback("hubwrite", "enter")
    /\ LET relative_change == relative_to(Top.change, CbOf(Top).addr)
       IN IF relative_change # << >>
          THEN BusPublish(relative_change[1], 1)
          ELSE UNCHANGED <<waiting, nextId, publishedAt>>
    /\ Return(Top)
    /\ UNCHANGED <<subs, panicked, replica, golden, comp_tree, output, pumps, ops,
                   handed, delivered, considered, config, subscribedAt, returned>>

\* Mount points: Here and the single steps
MountPoints == AddressesUpTo(1)

HubChanges ==
    {TreeChange(ChildAtIndex(0, a), "Child", <<SmallTree>>) : a \in AddressesUpTo(MaxAddrLen + 1)}

\* Hub::read_from(A), a (Here, SubTree) subscriber on the consumer it returns, and
\* Hub::publish_to(B); the run publishes one change c on the publisher
InitHub ==
    /\ InitCommon
    /\ \E a \in MountPoints, b \in MountPoints, c \in HubChanges :
          /\ config = [a |-> a, b |-> b, change |-> c]
          /\ subs = [NoSubs EXCEPT
                       !["bus"] = <<Subscription(a, "SubTree",
                                                 Callback("hubread", "rd", NoChange, Here))>>,
                       !["rd"] = <<Subscription(Here, "SubTree", LogCallback)>>,
                       !["wr"] = <<Subscription(Here, "SubTree",
                                                Callback("hubwrite", "bus", NoChange, b))>>]
    /\ subscribedAt = [m \in Managers |-> [i \in 1..Len(subs[m]) |-> 0]]

HubPublish == nextId = 0 /\ TopImmPublish("wr", config.change)

NextHub ==
    \/ HubPublish
    \/ Pump
    \/ Flush
    \/ PumpNext
    \/ PumpReturn
    \/ FlushLoop
    \/ CallNext
    \/ CallReturn
    \/ RunLog
    \/ RunHubRead
    \/ RunHubReadExit
    \/ RunHubWrite

SpecHub == InitHub /\ [][NextHub]_vars

\* What the observer of read_from(A) has been given
Observed == {delivered[i].change : i \in DeliveriesTo("rd", 1)}

\* The change was published on publish_to(B) and a later pump has emptied the bus
PublishedAndPumped ==
    /\ Idle
    /\ waiting = << >>
    /\ \E i \in DOMAIN considered : considered[i].mgr = "wr" /\ considered[i].pump < pumps

\* C9: with A = B, the observer of read_from(A) is given exactly the change that was
\* published on publish_to(A): same address, type and replacement
C9_PublishToInvertsReadFrom ==
    config.a = config.b /\ PublishedAndPumped => Observed = {config.change}

\* Two addresses that part at a step of the same kind with different keys
Disjoint(a, b) ==
    \E i \in (DOMAIN a) \cap (DOMAIN b) :
        /\ SubSeq(a, 1, i - 1) = SubSeq(b, 1, i - 1)
        /\ a[i].kind = b[i].kind
        /\ a[i] # b[i]

\* C10: with A and B in disjoint subtrees, the observer of read_from(A) is given
\* nothing of what is published on publish_to(B)
C10_MountsAreIsolated ==
    Disjoint(config.a, config.b) => Observed = {}

-----------------------------------------------------------------------------
(* SpecAddress: the functions of TreeAddress, called on two addresses      *)

InitAddress ==
    /\ InitCommon
    /\ subs = NoSubs
    /\ subscribedAt = [m \in Managers |-> << >>]
    /\ \E a \in AddressesUpTo(MaxAddrLen), b \in AddressesUpTo(MaxAddrLen) :
          config = [a |-> a, b |-> b]

\* A call of a pure function: what it returned is recorded, nothing else changes
Returns(op, value) ==
    /\ returned.op = "none"
    /\ returned' = [op |-> op, value |-> value]
    /\ UNCHANGED <<subs, waiting, stack, borrowed, panicked, replica, golden, comp_tree,
                   output, nextId, pumps, ops, publishedAt, handed, delivered,
                   considered, config, subscribedAt>>

\* a.is_parent_of(b)
CallIsParentOf == Returns("is_parent_of", is_parent_of(config.a, config.b))

\* a.is_child_of(b)
CallIsChildOf == Returns("is_child_of", is_child_of(config.a, config.b))

\* a.relative_to(b)
CallAddressRelativeTo == Returns("relative_to", address_relative_to(config.a, config.b))

\* a.parent()
CallParent == Returns("parent", parent(config.a))

NextAddress ==
    \/ CallIsParentOf
    \/ CallIsChildOf
    \/ CallAddressRelativeTo
    \/ CallParent

SpecAddress == InitAddress /\ [][NextAddress]_vars

\* p is a prefix of a (p = a included)
IsPrefix(p, a) == Len(p) <= Len(a) /\ SubSeq(a, 1, Len(p)) = p

\* a and b agree up to a position where one has an index step and the other a tag step
KindMismatch(a, b) ==
    \E i \in (DOMAIN a) \cap (DOMAIN b) :
        /\ SubSeq(a, 1, i - 1) = SubSeq(b, 1, i - 1)
        /\ a[i].kind # b[i].kind

\* C12: every address is a parent of itself and a child of itself
C12_AncestorReflexivity ==
    config.a = config.b =>
        /\ returned.op = "is_parent_of" => returned.value = SomeTrue
        /\ returned.op = "is_child_of" => returned.value = SomeTrue

\* is_child_of was called on an address of two steps of different kinds and itself
C12_Witness ==
    /\ returned.op = "is_child_of"
    /\ config.a = config.b
    /\ Len(config.a) = 2
    /\ config.a[1].kind # config.a[2].kind

\* C13: Here is a parent of every address, and no address other than Here is a
\* parent of Here: the answer is Some(false), never None
C13_HereAbsorption ==
    returned.op = "is_parent_of" =>
        /\ config.a = Here => returned.value = SomeTrue
        /\ config.a # Here /\ config.b = Here => returned.value = SomeFalse

\* is_parent_of was called on an address that starts with a tag step, and Here
C13_Witness ==
    /\ returned.op = "is_parent_of"
    /\ config.b = Here
    /\ config.a # Here
    /\ config.a[1].kind = "tag"

\* C14: is_parent_of is None, in both directions, exactly when the two addresses part
\* at a step where one is an index step and the other a tag step
C14_NoneIffKindMismatch ==
    returned.op = "is_parent_of" =>
        /\ returned.value = NoneBool <=> KindMismatch(config.a, config.b)
        /\ returned.value = NoneBool <=> is_parent_of(config.b, config.a) = NoneBool

\* is_parent_of gave None for two addresses that share their first step
C14_Witness ==
    /\ returned.op = "is_parent_of"
    /\ returned.value = NoneBool
    /\ Len(config.a) = 2
    /\ Len(config.b) = 2
    /\ config.a[1] = config.b[1]

\* C15: when p is a parent of a (p = a included), a.relative_to(p) is Some(s) and
\* p.to_tree_address_then(s) is a
C15_RelativeToInverse ==
    returned.op = "relative_to" /\ is_parent_of(config.b, config.a) = SomeTrue =>
        /\ returned.value # << >>
        /\ to_tree_address_then(config.b, returned.value[1]) = config.a

\* What the code does: the law holds for proper ancestors, and for p = a the result
\* is None
C15_Observed ==
    returned.op = "relative_to" /\ is_parent_of(config.b, config.a) = SomeTrue =>
        IF config.a = config.b
        THEN returned.value = << >>
        ELSE /\ returned.value # << >>
             /\ to_tree_address_then(config.b, returned.value[1]) = config.a

-----------------------------------------------------------------------------
(* SpecChange: the pure functions of TreeChange (src/tree/change.rs), called *)
(* once on a change and an address                                           *)

InitChange ==
    /\ InitCommon
    /\ subs = NoSubs
    /\ subscribedAt = [m \in Managers |-> << >>]
    /\ \E change \in DispatchChanges, address \in AddressesUpTo(MaxAddrLen) :
          config = [change |-> change, address |-> address]

CallRelativeTo == Returns("change_relative_to", relative_to(config.change, config.address))

CallAppliesToSubtree ==
    Returns("applies_to_subtree", applies_to(config.change, config.address, "SubTree"))

CallAppliesToChildOf ==
    Returns("applies_to_child_of", applies_to(config.change, config.address, "Children"))

CallAppliesToOnly ==
    Returns("applies_to_only", applies_to(config.change, config.address, "ThisNode"))

NextChange ==
    \/ CallRelativeTo
    \/ CallAppliesToSubtree
    \/ CallAppliesToChildOf
    \/ CallAppliesToOnly

SpecChange == InitChange /\ [][NextChange]_vars

\* The root of the change is the imaginary root's child 0 followed by an address
\* in the tree
RootInTree(change) == change.root # Here /\ change.root[1] = IndexStep(0)

\* The steps of a that follow its prefix p
Suffix(a, p) == SubSeq(a, Len(p) + 1, Len(a))

\* C11: when A is an ancestor of or equal to the tree-relative root R of a change,
\* change.relative_to(A) is Some change of the same type and replacement whose root
\* is step 0 followed by the suffix of R after A; it is never None
C11_RelativeToAncestorIsSome ==
    LET R == address_relative_to_tree_root(config.change)
    IN returned.op = "change_relative_to" /\ is_parent_of(config.address, R) = SomeTrue =>
          /\ returned.value # << >>
          /\ returned.value[1] =
                TreeChange(ChildAtIndex(0, Suffix(R, config.address)),
                           config.change.change_type, config.change.replacement_tree)

\* What the code does: the result is as described when A is a proper ancestor of R,
\* and None when A equals R
C11_Observed ==
    LET R == address_relative_to_tree_root(config.change)
    IN returned.op = "change_relative_to" /\ is_parent_of(config.address, R) = SomeTrue =>
          IF config.address = R
          THEN returned.value = << >>
          ELSE returned.value =
                  <<TreeChange(ChildAtIndex(0, Suffix(R, config.address)),
                               config.change.change_type, config.change.replacement_tree)>>

\* C16: for a Child change whose root is step 0 followed by R, applies_to(A, SubTree)
\* is Some(true) iff R is a prefix of A or A is a prefix of R, None iff R and A
\* diverge by step kind, Some(false) otherwise, and the same with R and A exchanged
C16_SubTreeAppliesIffOneIsPrefix ==
    returned.op = "applies_to_subtree" /\ config.change.change_type = "Child"
            /\ RootInTree(config.change) =>
        LET R == Tail(config.change.root)
            A == config.address
        IN /\ returned.value = SomeTrue <=> IsPrefix(R, A) \/ IsPrefix(A, R)
           /\ returned.value = NoneBool <=> KindMismatch(R, A)
           /\ returned.value \in {SomeTrue, SomeFalse, NoneBool}
           /\ returned.value =
                 applies_to(TreeChange(ChildAtIndex(0, A), "Child",
                                       config.change.replacement_tree), R, "SubTree")

\* A subtree subscription at a proper ancestor of the changed node is told the
\* change applies
C16_Witness ==
    /\ returned.op = "applies_to_subtree"
    /\ config.change.change_type = "Child"
    /\ RootInTree(config.change)
    /\ IsPrefix(config.address, Tail(config.change.root))
    /\ Len(config.address) = 1
    /\ Len(config.change.root) = 3
    /\ returned.value = SomeTrue

\* Two addresses that part at a step of the same kind: the change does not apply
C16_WitnessDiverge ==
    /\ returned.op = "applies_to_subtree"
    /\ config.change.change_type = "Child"
    /\ RootInTree(config.change)
    /\ returned.value = SomeFalse

\* C17: for a Child change with tree-relative root R, applies_to(A, ThisNode) is
\* Some(true) exactly when R is a proper prefix of A, and Some(false) when A is R or
\* an ancestor of R, for every R, Here included
C17_ThisNodeOnlyStrictDescendants ==
    returned.op = "applies_to_only" /\ config.change.change_type = "Child"
            /\ RootInTree(config.change) =>
        LET R == Tail(config.change.root)
            A == config.address
        IN /\ returned.value = SomeTrue <=> IsPrefix(R, A) /\ R # A
           /\ IsPrefix(A, R) => returned.value = SomeFalse

\* What the code does: as claimed whenever R is not Here; with R = Here every
\* address is reported as changed, the root node itself included
C17_Observed ==
    returned.op = "applies_to_only" /\ config.change.change_type = "Child"
            /\ RootInTree(config.change) =>
        LET R == Tail(config.change.root)
            A == config.address
        IN IF R = Here
           THEN returned.value = SomeTrue
           ELSE /\ returned.value = SomeTrue <=> IsPrefix(R, A) /\ R # A
                /\ IsPrefix(A, R) => returned.value = SomeFalse

-----------------------------------------------------------------------------
(* SpecApply: TreeChange::apply and TreeChange::relative_to on reference-    *)
(* counted nodes. The heap is the sequence of the nodes allocated so far, a  *)
(* TreeRef is a position in it, and Rc::new appends a node. The operators    *)
(* ending in _rc are the functions of src/tree/change.rs again, with the     *)
(* allocations they make written out.                                        *)

\* Rc::new(node)
Rc_new(heap, node) == [heap |-> Append(heap, node), ref |-> Len(heap) + 1]

\* A variant that hands back the original node instead of a copy of it
BasicTree_from_shared(heap, node) == [heap |-> heap, ref |-> node]

\* BasicTree::from(node): a new node with the tag, the value and the two references
\* of the original
BasicTree_from(heap, node) == Rc_new(heap, heap[node])

\* A variant that stops at the end of the chain instead of adding placeholders
RECURSIVE walk_to_index_no_growth(_, _, _, _)
walk_to_index_no_growth(heap, siblings, current, remaining) ==
    IF remaining = 0 \/ current = << >>
    THEN [heap |-> heap, siblings |-> siblings, current |-> current]
    ELSE walk_to_index_no_growth(heap, Append(siblings, current[1]),
                                 heap[current[1]].sibling, remaining - 1)

\* The first loop of the ChildAtIndex arm (change.rs:98-105)
RECURSIVE walk_to_index_rc(_, _, _, _)
walk_to_index_rc(heap, siblings, current, remaining) ==
    IF remaining = 0 THEN [heap |-> heap, siblings |-> siblings, current |-> current]
    ELSE IF current = << >>
         THEN LET placeholder == Rc_new(heap, EmptyNode)
              IN walk_to_index_rc(placeholder.heap, Append(siblings, placeholder.ref),
                                  << >>, remaining - 1)
         ELSE walk_to_index_rc(heap, Append(siblings, current[1]),
                               heap[current[1]].sibling, remaining - 1)

\* The first loop of the ChildWithTag arm (change.rs:126-140)
RECURSIVE walk_to_tag_rc(_, _, _, _)
walk_to_tag_rc(heap, siblings, current, child_tag) ==
    IF current = << >> \/ heap[current[1]].tag = child_tag
    THEN [heap |-> heap, siblings |-> siblings, current |-> current]
    ELSE walk_to_tag_rc(heap, Append(siblings, current[1]),
                        heap[current[1]].sibling, child_tag)

\* "Pop siblings to generate the new child item": every sibling before the edited
\* position is copied with its new sibling
RECURSIVE pop_siblings_rc(_, _, _)
pop_siblings_rc(heap, siblings, current) ==
    IF siblings = << >> THEN [heap |-> heap, ref |-> current]
    ELSE LET copy == Rc_new(heap, from_with_sibling(heap[siblings[Len(siblings)]], current))
         IN pop_siblings_rc(copy.heap, SubSeq(siblings, 1, Len(siblings) - 1), copy.ref)

RECURSIVE perform_apply_rc(_, _, _, _, _)
perform_apply_rc(heap, original_tree, address, change_type, replacement_tree) ==
    IF address = Here
    THEN LET new_node == BasicTree_from(heap, original_tree)
         IN [heap |-> [new_node.heap EXCEPT ![new_node.ref] =
                          perform_replacement(@, change_type, replacement_tree)],
             ref  |-> new_node.ref]
    ELSE LET walked     == IF Head(address).kind = "index"
                           THEN walk_to_index_rc(heap, << >>, heap[original_tree].child,
                                                 Head(address).index)
                           ELSE walk_to_tag_rc(heap, << >>, heap[original_tree].child,
                                               Head(address).tag)
             child_tree == IF walked.current = << >>
                           THEN Rc_new(walked.heap, EmptyNode)
                           ELSE [heap |-> walked.heap, ref |-> walked.current[1]]
             new_child  == perform_apply_rc(child_tree.heap, child_tree.ref, Tail(address),
                                            change_type, replacement_tree)
             popped     == pop_siblings_rc(new_child.heap, walked.siblings, new_child.ref)
         IN Rc_new(popped.heap, from_with_child(popped.heap[original_tree], popped.ref))

\* tree!("", original_tree): "".to_tree_node(), a copy of the root of the tree with
\* its sibling cleared (set_children_refs), and the imaginary root above it
imaginary_root_rc(heap, original_tree) ==
    LET empty     == Rc_new(heap, EmptyNode)
        new_child == Rc_new(empty.heap, clear_sibling(empty.heap[original_tree]))
    IN Rc_new(new_child.heap, set_child_ref(EmptyNode, new_child.ref))

apply_rc(heap, change, original_tree) ==
    LET imaginary_root     == imaginary_root_rc(heap, original_tree)
        new_imaginary_root == perform_apply_rc(imaginary_root.heap, imaginary_root.ref,
                                               change.root, change.change_type,
                                               change.replacement_tree)
        child              == new_imaginary_root.heap[new_imaginary_root.ref].child
    IN IF child = << >> THEN Rc_new(new_imaginary_root.heap, EmptyNode)
       ELSE [heap |-> new_imaginary_root.heap, ref |-> child[1]]

\* The children of a node, first to last: the chain of siblings from its child
RECURSIVE ChildRefs(_, _)
ChildRefs(heap, current) ==
    IF current = << >> THEN << >>
    ELSE <<current[1]>> \o ChildRefs(heap, heap[current[1]].sibling)

\* The position among the children that a step of an address names: its index, or
\* the first child with its tag; one past the last child when no child has the tag
PositionOf(heap, children, step) ==
    IF step.kind = "index" THEN step.index + 1
    ELSE IF \E k \in DOMAIN children : heap[children[k]].tag = step.tag
         THEN CHOOSE k \in DOMAIN children :
                 /\ heap[children[k]].tag = step.tag
                 /\ \A j \in 1..(k - 1) : heap[children[j]].tag # step.tag
         ELSE Len(children) + 1

\* TreeAddress::lookup_index on references
RECURSIVE lookup_index_rc(_, _, _)
lookup_index_rc(heap, address, parent_node) ==
    IF address = Here THEN <<parent_node>>
    ELSE LET children == ChildRefs(heap, heap[parent_node].child)
             pos      == PositionOf(heap, children, Head(address))
         IN IF pos > Len(children) THEN << >>
            ELSE lookup_index_rc(heap, Tail(address), children[pos])

\* relative_to_replacement_tree: the fake root is a new node, and the replacement
\* becomes its child
relative_to_replacement_tree_rc(heap, change, tree_address) ==
    LET fake_root_node  == Rc_new(heap, EmptyNode)
        with_child      == IF change.replacement_tree # << >>
                           THEN [fake_root_node.heap EXCEPT ![fake_root_node.ref] =
                                    set_child_ref(@, change.replacement_tree[1])]
                           ELSE fake_root_node.heap
        new_change_tree == lookup_index_rc(with_child, tree_address, fake_root_node.ref)
    IN [heap |-> with_child, value |-> <<TreeChange(Here, "Child", new_change_tree)>>]

\* TreeChange::relative_to with relative_to_child and relative_to_sibling; only
\* relative_to_replacement_tree allocates
relative_to_rc(heap, change, address) ==
    LET relative_root == address_relative_to_tree_root(change)
        untouched(value) == [heap |-> heap, value |-> value]
        relative_to_child_rc ==
            LET root_relative_to_tree == address_relative_to(address, relative_root)
            IN IF root_relative_to_tree # << >>
               THEN relative_to_replacement_tree_rc(heap, change, root_relative_to_tree[1])
               ELSE untouched(<< >>)
        relative_to_sibling_rc ==
            LET maybe_relative_to_parent ==
                    address_relative_to(address, parent(relative_root))
                last_part_of_root == last_part(relative_root)
            IN IF maybe_relative_to_parent = << >> THEN untouched(<< >>)
               ELSE LET first == Head(maybe_relative_to_parent[1])
                        rest  == Tail(maybe_relative_to_parent[1])
                    IN IF first.kind = "tag"
                       THEN relative_to_replacement_tree_rc(heap, change,
                                                            maybe_relative_to_parent[1])
                       ELSE IF last_part_of_root # Here
                               /\ Head(last_part_of_root).kind = "index"
                               /\ first.index > Head(last_part_of_root).index
                            THEN relative_to_replacement_tree_rc(heap, change,
                                    ChildAtIndex(first.index
                                                   - Head(last_part_of_root).index - 1,
                                                 rest))
                            ELSE untouched(<< >>)
    IN IF unwrap_or_false(is_parent_of(address, relative_root))
       THEN untouched(relative_to_parent(change, address))
       ELSE IF change.change_type = "Child"
               /\ unwrap_or_false(is_parent_of(relative_root, address))
            THEN relative_to_child_rc
            ELSE IF change.change_type = "Sibling"
                 THEN relative_to_sibling_rc
                 ELSE untouched(<< >>)

\* The nodes that exist before a call: a tree and a replacement tree
\*   1 root -- 2 a(1) -- 5 a(4)          7 r(6) -- 8 a(7)
\*          \- 3 b(2)
\*          \- 4 a(3) -- 6 c(5)
ApplyHeap ==
    << BasicTree("root", Nothing, <<2>>, << >>),
       BasicTree("a", IntValue(1), <<5>>, <<3>>),
       BasicTree("b", IntValue(2), << >>, <<4>>),
       BasicTree("a", IntValue(3), <<6>>, << >>),
       BasicTree("a", IntValue(4), << >>, << >>),
       BasicTree("c", IntValue(5), << >>, << >>),
       BasicTree("r", IntValue(6), <<8>>, << >>),
       BasicTree("a", IntValue(7), << >>, << >>) >>

\* The nodes that a call is given as the tree to change: all but the two of the
\* replacement tree, whose root is the last node but one
TreeRoots == 1..(Len(ApplyHeap) - 2)

\* The roots of the changes applied: those of ChangeRoots, and the roots that name
\* the root of the tree by its tag instead of step 0
ApplyRoots ==
    ChangeRoots \cup {ChildWithTag(t, a) : t \in Tags, a \in AddressesUpTo(MaxAddrLen - 1)}

\* No replacement, the replacement tree, or the first child of the tree, a node
\* that has siblings
ApplyReplacements == {<< >>, <<Len(ApplyHeap) - 1>>, ApplyHeap[1].child}

ApplyChanges ==
    {TreeChange(root, type, repl) :
        root \in ApplyRoots, type \in {"Child", "Sibling"}, repl \in ApplyReplacements}

InitApply ==
    /\ InitCommon
    /\ subs = NoSubs
    /\ subscribedAt = [m \in Managers |-> << >>]
    /\ \E change \in ApplyChanges : config = [change |-> change]

CallApply ==
    \E original_tree \in TreeRoots :
        LET applied == apply_rc(ApplyHeap, config.change, original_tree)
        IN Returns("apply", [tree |-> original_tree, heap |-> applied.heap,
                             ref |-> applied.ref])

CallRelativeToRc ==
    \E address \in AddressesUpTo(MaxAddrLen) :
        LET relative == relative_to_rc(ApplyHeap, config.change, address)
        IN Returns("relative_to_rc", [address |-> address, heap |-> relative.heap,
                                      change |-> relative.value])

\* c.apply(&c.apply(&tree)): the change is applied to the tree that apply returned
CallApplyAgain ==
    /\ returned.op = "apply"
    /\ LET applied == apply_rc(returned.value.heap, config.change, returned.value.ref)
       IN returned' = [op |-> "apply_again",
                       value |-> [tree |-> returned.value.tree, once |-> returned.value.ref,
                                  heap |-> applied.heap, ref |-> applied.ref]]
    /\ UNCHANGED <<subs, waiting, stack, borrowed, panicked, replica, golden, comp_tree,
                   output, nextId, pumps, ops, publishedAt, handed, delivered,
                   considered, config, subscribedAt>>

\* c.relative_to(&address) gave a change: it is applied to the node that the
\* address names in a tree, and c itself is applied to that tree
CallApplyRelative ==
    /\ returned.op = "relative_to_rc"
    /\ returned.value.change # << >>
    /\ \E original_tree \in TreeRoots :
          LET subtree == lookup_index_rc(ApplyHeap, returned.value.address, original_tree)
          IN /\ subtree # << >>
             /\ LET relative == apply_rc(returned.value.heap, returned.value.change[1],
                                         subtree[1])
                    whole    == apply_rc(relative.heap, config.change, original_tree)
                IN returned' = [op |-> "apply_relative",
                                value |-> [tree |-> original_tree,
                                           address |-> returned.value.address,
                                           heap |-> whole.heap, ref |-> whole.ref,
                                           relative |-> relative.ref]]
    /\ UNCHANGED <<subs, waiting, stack, borrowed, panicked, replica, golden, comp_tree,
                   output, nextId, pumps, ops, publishedAt, handed, delivered,
                   considered, config, subscribedAt>>

NextApply == CallApply \/ CallRelativeToRc \/ CallApplyAgain \/ CallApplyRelative

SpecApply == InitApply /\ [][NextApply]_vars

\* The children of a node
Children(heap, node) == ChildRefs(heap, heap[node].child)

\* A node created as a placeholder: BasicTree::new("", ()) with no children
IsPlaceholder(node) == node.tag = "" /\ node.value = Nothing /\ node.child = << >>

\* The positions k of the root of the change where an index step is taken under a
\* node of the tree that exists before the call and has no child at that index; the
\* root of the change starts with step 0, the root of the tree
GrownAt ==
    {k \in 2..Len(config.change.root) :
        /\ config.change.root[1] = IndexStep(0)
        /\ config.change.root[k].kind = "index"
        /\ LET under == lookup_index_rc(ApplyHeap, SubSeq(config.change.root, 2, k - 1),
                                        returned.value.tree)
           IN /\ under # << >>
              /\ Len(Children(ApplyHeap, under[1])) <= config.change.root[k].index}

\* The node that had n <= i children has exactly `count` children after the call:
\* the n it had, with their tags, values and children, then placeholders up to
\* position i - 1, then the edited node
GrownTo(k, count) ==
    LET under_address == SubSeq(config.change.root, 2, k - 1)
        i      == config.change.root[k].index
        before == Children(ApplyHeap,
                           lookup_index_rc(ApplyHeap, under_address, returned.value.tree)[1])
        under  == lookup_index_rc(returned.value.heap, under_address, returned.value.ref)
        heap   == returned.value.heap
    IN /\ under # << >>
       /\ LET after == Children(heap, under[1])
          IN /\ Len(after) = count
             /\ \A j \in 1..Len(before) :
                   /\ heap[after[j]].tag = ApplyHeap[before[j]].tag
                   /\ heap[after[j]].value = ApplyHeap[before[j]].value
                   /\ heap[after[j]].child = ApplyHeap[before[j]].child
             /\ \A j \in (Len(before) + 1)..i : IsPlaceholder(heap[after[j]])
             /\ heap[after[i + 1]].tag = ""
             /\ k = Len(config.change.root) /\ config.change.change_type = "Child" =>
                   heap[after[i + 1]].child = config.change.replacement_tree

\* The change replaces the sibling of the node at the grown position itself
AttachesSibling(k) ==
    /\ k = Len(config.change.root)
    /\ config.change.change_type = "Sibling"
    /\ config.change.replacement_tree # << >>

\* C18 as stated: a change addressed through ChildAtIndex(i) under a node with
\* n <= i children leaves that node with exactly i + 1 children, the original n
\* unchanged and in order, placeholders at n..i-1 and the edited node at i
C18_GrowsToExactlyIndexPlusOne ==
    returned.op = "apply" =>
        \A k \in GrownAt : GrownTo(k, config.change.root[k].index + 1)

\* C18, amended: the same, except that a Sibling change with a replacement that ends
\* at the grown position hangs the replacement tree after position i, so the node
\* has the i + 1 children described followed by the nodes of the replacement
C18_GrowsMissingChildren ==
    returned.op = "apply" =>
        /\ returned.value.ref \in DOMAIN returned.value.heap
        /\ \A k \in GrownAt :
              GrownTo(k, config.change.root[k].index + 1
                           + IF AttachesSibling(k)
                             THEN Len(ChildRefs(ApplyHeap, config.change.replacement_tree))
                             ELSE 0)

\* A node without children was changed at its child 1: a placeholder was made at 0
C18_Witness ==
    /\ returned.op = "apply"
    /\ config.change.change_type = "Child"
    /\ config.change.replacement_tree # << >>
    /\ \E k \in GrownAt :
          /\ config.change.root[k].index = 1
          /\ k = Len(config.change.root)
          /\ Children(ApplyHeap,
                 lookup_index_rc(ApplyHeap, SubSeq(config.change.root, 2, k - 1),
                                 returned.value.tree)[1]) = << >>

\* The edited node keeps the reference that the change does not replace: its
\* sibling for a Child change, its child for a Sibling change
KeepsOtherReference(heap, before, after, change_type) ==
    IF change_type = "Child"
    THEN heap[after].sibling = ApplyHeap[before].sibling
    ELSE heap[after].child = ApplyHeap[before].child

\* What is shared below one node on the path of the change: `before` are the
\* children the node had and `after` the children it has now. The children before
\* the position the address names keep their child references, and the node at the
\* position keeps its sibling reference, that is every sibling after it; below it
\* the same holds for the rest of the address
RECURSIVE SharedAlong(_, _, _, _, _)
SharedAlong(heap, before, after, address, change_type) ==
    LET pos == PositionOf(ApplyHeap, before, Head(address))
    IN /\ Len(after) >= pos
       /\ \A j \in 1..(pos - 1) :
             j <= Len(before) => heap[after[j]].child = ApplyHeap[before[j]].child
       /\ pos <= Len(before) =>
             IF Tail(address) = Here
             THEN KeepsOtherReference(heap, before[pos], after[pos], change_type)
             ELSE /\ heap[after[pos]].sibling = ApplyHeap[before[pos]].sibling
                  /\ SharedAlong(heap, Children(ApplyHeap, before[pos]),
                                 Children(heap, after[pos]), Tail(address), change_type)

\* The same from the imaginary root, whose only child is the root of the tree; the
\* root of a tree has no sibling to keep
SharedWithInput(keeps_child_of_edited) ==
    LET heap == returned.value.heap
        tree == returned.value.tree
        root == config.change.root
        type == config.change.change_type
        keeps(before, after) ==
            type = "Sibling" /\ keeps_child_of_edited =>
                heap[after].child = ApplyHeap[before].child
    IN IF root = Here
       THEN keeps(tree, returned.value.ref)
       ELSE IF PositionOf(ApplyHeap, <<tree>>, Head(root)) # 1
            THEN heap[returned.value.ref].child = ApplyHeap[tree].child
            ELSE IF Tail(root) = Here
                 THEN keeps(tree, returned.value.ref)
                 ELSE SharedAlong(heap, Children(ApplyHeap, tree),
                                  Children(heap, returned.value.ref), Tail(root),
                                  IF keeps_child_of_edited THEN type ELSE "Child")

\* C19: after apply, every subtree that is neither replaced by the change nor on the
\* path of its address is the same reference as in the input: the children of the
\* siblings before each position on the path, the siblings after it, and the
\* reference of the edited node that the change does not replace
C19_StructuralSharing ==
    returned.op = "apply" => SharedWithInput(TRUE)

\* What the code does: the same for a Child change and for a Sibling change with a
\* replacement; a Sibling change without a replacement clears the child of the
\* edited node, so that subtree is not in the result
C19_Observed ==
    returned.op = "apply" =>
        SharedWithInput(config.change.replacement_tree # << >>)

\* C20: after apply and after relative_to, every node that existed before the call,
\* in the tree or in the replacement tree, has the tag, value, child reference and
\* sibling reference it had; only nodes created by the call are written
C20_ApplyIsPersistent ==
    returned.op \in {"apply", "relative_to_rc"} =>
        /\ Len(returned.value.heap) >= Len(ApplyHeap)
        /\ SubSeq(returned.value.heap, 1, Len(ApplyHeap)) = ApplyHeap

\* A change was applied at a node of the input tree below its root, and the result
\* is made of new nodes
C20_Witness ==
    /\ returned.op = "apply"
    /\ Len(config.change.root) >= 2
    /\ lookup_index_rc(ApplyHeap, Tail(config.change.root), returned.value.tree) # << >>
    /\ config.change.root[1] = IndexStep(0)
    /\ returned.value.ref > Len(ApplyHeap)

\* relative_to made a fake root above the replacement tree
C20_WitnessRelative ==
    /\ returned.op = "relative_to_rc"
    /\ config.change.replacement_tree # << >>
    /\ Len(returned.value.heap) > Len(ApplyHeap)
    /\ returned.value.change # << >>

\* The tree behind a reference, as a value: the node with its child and its
\* sibling, each a tree again
RECURSIVE TreeOf(_, _)
TreeOf(heap, ref) ==
    LET node == heap[ref]
    IN BasicTree(node.tag, node.value,
                 IF node.child = << >> THEN << >> ELSE <<TreeOf(heap, node.child[1])>>,
                 IF node.sibling = << >> THEN << >> ELSE <<TreeOf(heap, node.sibling[1])>>)

\* The tag, the value and the descendants of a node, without its siblings
SubtreeOf(heap, ref) == clear_sibling(TreeOf(heap, ref))

\* A Child change rooted at Here with a replacement has been applied
WholeTreeReplaced ==
    /\ returned.op = "apply"
    /\ config.change.root = Here
    /\ config.change.change_type = "Child"
    /\ config.change.replacement_tree # << >>

\* C21: a Child change rooted at Here with replacement X yields, for any tree, a
\* root with the tag, value and children of X and without a sibling, also when X
\* has a sibling
C21_WholeTreeReplacement ==
    WholeTreeReplaced =>
        TreeOf(returned.value.heap, returned.value.ref)
            = SubtreeOf(ApplyHeap, config.change.replacement_tree[1])

\* What the code does: the result is X itself, with the sibling X has
C21_Observed ==
    WholeTreeReplaced => returned.value.ref = config.change.replacement_tree[1]

\* The node that the root of the change names in the tree before the call, when
\* it is there: the root of the tree for a root of one step that is step 0 or the
\* tag of the root of the tree, a node below it for a longer root
NodeBefore ==
    IF config.change.root = Here
          \/ PositionOf(ApplyHeap, <<returned.value.tree>>, Head(config.change.root)) # 1
    THEN << >>
    ELSE lookup_index_rc(ApplyHeap, Tail(config.change.root), returned.value.tree)

\* The node that the root of the change names in the result
NodeAfter ==
    lookup_index_rc(returned.value.heap, Tail(config.change.root), returned.value.ref)

\* A Sibling change has been applied at a node that the tree had
SiblingChanged ==
    /\ returned.op = "apply"
    /\ config.change.change_type = "Sibling"
    /\ NodeBefore # << >>

\* C26: after a Sibling change at R the node at R has the tag, the value and the
\* child reference it had; its sibling is the replacement, or none when the change
\* has no replacement
C26_SiblingChangeRewritesOnlySibling ==
    SiblingChanged =>
        /\ NodeAfter # << >>
        /\ LET before == ApplyHeap[NodeBefore[1]]
               after  == returned.value.heap[NodeAfter[1]]
           IN /\ after.tag = before.tag
              /\ after.value = before.value
              /\ after.child = before.child
              /\ after.sibling = config.change.replacement_tree

\* What the code does: with a replacement, as claimed; without one the child
\* reference is cleared, and the sibling reference is the one the node had
C26_Observed ==
    SiblingChanged =>
        /\ NodeAfter # << >>
        /\ LET before == ApplyHeap[NodeBefore[1]]
               after  == returned.value.heap[NodeAfter[1]]
           IN /\ after.tag = before.tag
              /\ after.value = before.value
              /\ IF config.change.replacement_tree # << >>
                 THEN /\ after.child = before.child
                      /\ after.sibling = config.change.replacement_tree
                 ELSE /\ after.child = << >>
                      /\ Len(config.change.root) > 1 => after.sibling = before.sibling

\* An imaginary root above a tree: a node whose only child is the root of the tree
UnderImaginaryRoot(heap, tree) == Rc_new(heap, set_child_ref(EmptyNode, tree))

\* The lookup of the root of the change from the imaginary root of the result
RootInResult ==
    LET above == UnderImaginaryRoot(returned.value.heap, returned.value.ref)
    IN lookup_index_rc(above.heap, config.change.root, above.ref)

\* The child reference of the node found there
ChildOfRootInResult ==
    UnderImaginaryRoot(returned.value.heap, returned.value.ref).heap[RootInResult[1]].child

\* Every tag step of the root of the change names a child that the tree has
TagStepsMatch ==
    LET above == imaginary_root_rc(ApplyHeap, returned.value.tree)
    IN \A k \in DOMAIN config.change.root :
          config.change.root[k].kind = "tag" =>
              lookup_index_rc(above.heap, SubSeq(config.change.root, 1, k), above.ref) # << >>

\* A Child change with a replacement has been applied
ChildReplaced ==
    /\ returned.op = "apply"
    /\ config.change.change_type = "Child"
    /\ config.change.replacement_tree # << >>

\* C27: after a Child change (R, X) the lookup of R from the imaginary root of the
\* result finds a node, and the first child of that node is X, for roots of index
\* steps, of tag steps or of both, also when a tag step matched no child
C27_ReadAfterWrite ==
    ChildReplaced =>
        /\ RootInResult # << >>
        /\ ChildOfRootInResult = config.change.replacement_tree

\* What the code does: as claimed when every tag step of R names a child the tree
\* has; a tag step that matches no child makes a node with the empty tag, which
\* the lookup of the tag does not find
C27_Observed ==
    ChildReplaced =>
        IF TagStepsMatch
        THEN /\ RootInResult # << >>
             /\ ChildOfRootInResult = config.change.replacement_tree
        ELSE RootInResult = << >>

\* C22: applying a change twice in a row gives the same tree as applying it once,
\* for Child and Sibling changes at index and tag addresses
C22_ApplyIsIdempotent ==
    returned.op = "apply_again" /\ config.change.root # Here =>
        TreeOf(returned.value.heap, returned.value.ref)
            = TreeOf(returned.value.heap, returned.value.once)

\* What the code does: the two trees are the same when every tag step of the root
\* of the change names a child the tree has; otherwise each application adds a node
\* with the empty tag
C22_Observed ==
    returned.op = "apply_again" /\ TagStepsMatch =>
        TreeOf(returned.value.heap, returned.value.ref)
            = TreeOf(returned.value.heap, returned.value.once)

\* The addresses that the change is said not to apply to, subtree included
NotApplying ==
    {address \in AddressesUpTo(MaxAddrLen) :
        applies_to(config.change, address, "SubTree") = SomeFalse}

\* The lookup of an address gives the same in the result as in the tree: the same
\* tag, value and descendants, or nothing in both
SameLookup(address) ==
    LET before == lookup_index_rc(ApplyHeap, address, returned.value.tree)
        after  == lookup_index_rc(returned.value.heap, address, returned.value.ref)
    IN IF before = << >> THEN after = << >>
       ELSE /\ after # << >>
            /\ SubtreeOf(returned.value.heap, after[1]) = SubtreeOf(ApplyHeap, before[1])

\* The address named nothing in the tree and names an empty placeholder in the result
GrownPlaceholder(address) ==
    LET before == lookup_index_rc(ApplyHeap, address, returned.value.tree)
        after  == lookup_index_rc(returned.value.heap, address, returned.value.ref)
    IN /\ before = << >>
       /\ after # << >>
       /\ IsPlaceholder(returned.value.heap[after[1]])

\* C28: if applies_to(A, SubTree) is Some(false), the lookup of A gives the same in
\* c.apply(T) as in T
C28_AppliesToMissesNothing ==
    returned.op = "apply" => \A address \in NotApplying : SameLookup(address)

\* What the code does: the lookup is the same, or the address names a placeholder
\* that apply made on the way to a later child
C28_Observed ==
    returned.op = "apply" =>
        \A address \in NotApplying : SameLookup(address) \/ GrownPlaceholder(address)

\* The tree that c' gives for the subtree at A is the one that the lookup of A finds
\* in c.apply(T); where the lookup finds nothing, c' gives the empty node that apply
\* returns for a tree that is deleted
RelativeAgrees ==
    LET found == lookup_index_rc(returned.value.heap, returned.value.address,
                                 returned.value.ref)
    IN SubtreeOf(returned.value.heap, returned.value.relative)
          = IF found = << >> THEN EmptyNode
            ELSE SubtreeOf(returned.value.heap, found[1])

\* C25: when the node at A is in T and c.relative_to(A) is Some(c'), applying c' to
\* the subtree of T at A gives the tag, value and descendants that the lookup of A
\* finds in c.apply(T), for Child and Sibling changes and for changes rooted at
\* Here, at step 0 or at the tag of the root
C25_RelativeToCommutesWithApply ==
    returned.op = "apply_relative" => RelativeAgrees

\* What the code does: the two agree for a Child change whose root starts with
\* step 0
C25_Observed ==
    returned.op = "apply_relative" /\ config.change.change_type = "Child"
            /\ RootInTree(config.change) =>
        RelativeAgrees

-----------------------------------------------------------------------------
(* SpecFlush: a bus with a subscriber that publishes one change on the     *)
(* same bus every time it is called, and an observer; the program          *)
(* publishes, pumps and flushes                                            *)

\* A callback that owns a BusPublisher of the bus and publishes the same change on
\* it on every call
RunEcho ==
    /\ InCallback("echo", "enter")
    /\ nextId < MaxPublished
    /\ BusPublish(CbOf(Top).arg, 0)
    /\ Return(Top)
    /\ UNCHANGED <<subs, panicked, replica, golden, comp_tree, output, pumps, ops,
                   handed, delivered, considered, config, subscribedAt, returned>>

\* The subscriber is registered at the root or at child 1, and publishes a change below
\* child 0 or below child 1
InitFlush ==
    /\ InitCommon
    /\ \E address \in {Here, ChildAtIndex(1, Here)}, arg \in {BusChangeA, BusChangeB} :
          /\ config = [address |-> address, arg |-> arg]
          /\ subs = [NoSubs EXCEPT
                       !["bus"] = <<Subscription(address, "SubTree",
                                                 Callback("echo", "bus", arg, Here)),
                                    Subscription(Here, "SubTree", LogCallback)>>]
    /\ subscribedAt = [m \in Managers |-> [i \in 1..Len(subs[m]) |-> 0]]

NextFlush ==
    \/ Publish
    \/ Pump
    \/ Flush
    \/ PumpNext
    \/ PumpReturn
    \/ FlushLoop
    \/ CallNext
    \/ CallReturn
    \/ RunLog
    \/ RunEcho

SpecFlush == InitFlush /\ [][NextFlush]_vars

\* The change the subscriber publishes is one it is called for
EchoMatches == MustInvoke(config.arg, subs["bus"][1])

\* The change the subscriber publishes has been pending: it is pending, or a pump has
\* still to hand it over, or it has been dispatched
EchoedChangePublished ==
    \/ \E i \in DOMAIN waiting : waiting[i].change = config.arg
    \/ \E f \in DOMAIN stack :
          /\ stack[f].op = "pump"
          /\ \E i \in DOMAIN stack[f].items : stack[f].items[i].change = config.arg
    \/ \E r \in DOMAIN considered : considered[r].change = config.arg

\* No pump is running: the program is at the top level or between two pumps of a flush
BetweenPumps == ~panicked /\ (stack = << >> \/ Top.op = "flush")

\* A flush is at the head of its loop
AtFlushLoop == Running /\ Top.op = "flush"

\* What a step does when a flush is at the head of its loop
FlushStep ==
    /\ AtFlushLoop /\ EchoMatches /\ EchoedChangePublished => Len(stack') > Len(stack)
    /\ AtFlushLoop /\ Len(stack') < Len(stack) => waiting = << >> /\ waiting' = << >>
    /\ AtFlushLoop /\ waiting = << >> =>
          /\ stack' = Pop
          /\ UNCHANGED <<waiting, pumps, handed, delivered, considered>>

\* C30: when the subscriber republishes a change that it is called for, then from the
\* moment that change is pending the pending list is non-empty whenever no pump is
\* running, and a flush does not return; a flush returns only from a state where the
\* pending list is empty, and at an empty pending list it returns at once, starting no
\* pump and calling no callback
C30_FlushReturnsOnlyOnEmptyList ==
    /\ [](EchoMatches /\ EchoedChangePublished /\ BetweenPumps => waiting # << >>)
    /\ [][FlushStep]_vars

\* A flush has run three pumps, each of which called the subscriber, and the change
\* the subscriber published during the last one is pending
C30_Witness ==
    /\ EchoMatches
    /\ Len(stack) = 1
    /\ AtFlushLoop
    /\ waiting # << >>
    /\ Cardinality({d \in DOMAIN delivered :
                       delivered[d].sub = 1 /\ delivered[d].depth = 3}) >= 3

\* A flush has pumped, the subscriber has published a change it is not called for, and
\* the flush is about to return on the empty pending list
C30_WitnessReturns ==
    /\ ~EchoMatches
    /\ Len(stack) = 1
    /\ AtFlushLoop
    /\ waiting = << >>
    /\ \E d \in DOMAIN delivered : delivered[d].sub = 1 /\ delivered[d].depth = 3

-----------------------------------------------------------------------------
(* SpecDecode: a typed function component for struct InputTree { a: i32 }  *)
(* and an observer on one immediate publisher; the component publishes     *)
(* a + 1 to an OutputTreePublisher                                         *)

\* Decoder::read_struct_field: decode the child carrying the field's name, Err
\* (MissingField) as << >> when there is none
read_struct_field(current_node, f_name) ==
    LET field == lookup_chain_tag(current_node.child, f_name)
    IN IF field = << >> THEN << >> ELSE read_i32(field[1])

\* InputTree::new_from_tree: Ok(InputTree { a }) as <<a>>, Err as << >>
new_from_tree(tree) == read_struct_field(tree, "a")

\* Variant: a component that publishes the removal of its output when decoding fails
publish_decoded_or_clear(decoded_or_err, published) ==
    IF decoded_or_err # << >>
    THEN output_publish(TreeChange(Here, "Child", <<IntNode(decoded_or_err[1] + 1)>>),
                        published)
    ELSE output_publish(TreeChange(Here, "Child", << >>), published)

\* `if let Ok(decoded) = decoded_or_err`: run the action (|input| input.a + 1) and
\* publish its result as the whole output tree; nothing on Err
publish_decoded(decoded_or_err, published) ==
    IF decoded_or_err # << >>
    THEN output_publish(TreeChange(Here, "Child", <<IntNode(decoded_or_err[1] + 1)>>),
                        published)
    ELSE published

\* The closure into_component subscribes for Box<FnMut(&TIn) -> TOut>
RunTypedComponent ==
    /\ InCallback("typed", "enter")
    /\ LET tree           == apply(Top.change, comp_tree)
           decoded_or_err == new_from_tree(tree)
       IN /\ comp_tree' = tree
          /\ output' = publish_decoded(decoded_or_err, output)
    /\ Return(Top)
    /\ UNCHANGED <<subs, waiting, panicked, replica, golden, nextId, pumps, ops,
                   publishedAt, handed, delivered, considered, config, subscribedAt,
                   returned>>

FirstChild == ChildAtIndex(0, ChildAtIndex(0, Here))

\* Changes that give the root a second child: a field a holding 1 or 2, a field a
\* holding nothing, or a field b; and one that puts a field a below the first child
DecodeChanges ==
    {TreeChange(FirstChild, "Sibling", <<BasicTree("a", IntValue(n), << >>, << >>)>>) :
        n \in {1, 2}}
    \cup {TreeChange(FirstChild, "Sibling", <<BasicTree("a", Nothing, << >>, << >>)>>),
          TreeChange(FirstChild, "Sibling", <<BasicTree("b", IntValue(1), << >>, << >>)>>),
          TreeChange(FirstChild, "Child", <<BasicTree("a", IntValue(1), << >>, << >>)>>)}

InitDecode ==
    /\ InitCommon
    /\ config = "decode"
    /\ subs = [NoSubs EXCEPT
                 !["imm1"] = <<Subscription(Here, "SubTree",
                                            Callback("typed", "imm1", NoChange, Here)),
                               Subscription(Here, "SubTree", LogCallback)>>]
    /\ subscribedAt = [m \in Managers |-> [i \in 1..Len(subs[m]) |-> 0]]

DecodePublish == \E change \in DecodeChanges : TopImmPublish("imm1", change)

NextDecode ==
    \/ DecodePublish
    \/ CallNext
    \/ CallReturn
    \/ RunLog
    \/ RunTypedComponent

SpecDecode == InitDecode /\ [][NextDecode]_vars

\* The changes the component has been called with, in order
ComponentCalls == SelectSeq(delivered, LAMBDA d : d.mgr = "imm1" /\ d.sub = 1)

\* The component's input tree after its first n calls
RECURSIVE InputAfter(_)
InputAfter(n) ==
    IF n = 0 THEN EmptyTree ELSE apply(ComponentCalls[n].change, InputAfter(n - 1))

FailsToDecode(n) == new_from_tree(InputAfter(n)) = << >>

\* The output tree after the component's first n calls, if a call whose input tree
\* does not decode publishes nothing and every other call publishes a + 1
RECURSIVE OutputAfter(_)
OutputAfter(n) ==
    IF n = 0 THEN EmptyTree
    ELSE IF FailsToDecode(n) THEN OutputAfter(n - 1)
    ELSE IntNode(new_from_tree(InputAfter(n))[1] + 1)

\* The component's callback has returned from every call made so far
ComponentReturned ==
    ~panicked /\ \A f \in DOMAIN stack : ~(stack[f].op = "callback" /\ stack[f].sub = 1)

\* C23: a call of the component whose accumulated input tree does not decode leaves
\* the output as it was and keeps the tree; the observer registered after the
\* component is called with the same change; a later call is applied to the kept
\* tree and publishes its result when the tree decodes; nothing panics
C23_DecodingFailureIsSwallowed ==
    /\ ~panicked
    /\ waiting = << >>
    /\ ComponentReturned =>
          /\ comp_tree = InputAfter(Len(ComponentCalls))
          /\ output = OutputAfter(Len(ComponentCalls))
    /\ \A n \in DOMAIN ComponentCalls :
          ~InProgress("imm1", ComponentCalls[n].id) =>
              \E d \in DOMAIN delivered :
                  /\ delivered[d].mgr = "imm1"
                  /\ delivered[d].sub = 2
                  /\ delivered[d].id = ComponentCalls[n].id
                  /\ delivered[d].change = ComponentCalls[n].change

\* The component decoded its tree and published, then was called with a change that
\* left a tree which does not decode, then with one after which it decodes again;
\* the output shows the result of the last call
C23_Witness ==
    /\ Idle
    /\ Len(ComponentCalls) = 3
    /\ ~FailsToDecode(1)
    /\ FailsToDecode(2)
    /\ ~FailsToDecode(3)
    /\ OutputAfter(1) # OutputAfter(3)
    /\ output = OutputAfter(3)

\* The last call of the component failed to decode and the output is the one
\* published by the call before it
C23_WitnessKept ==
    /\ Idle
    /\ Len(ComponentCalls) = 2
    /\ ~FailsToDecode(1)
    /\ FailsToDecode(2)
    /\ output = OutputAfter(1)
    /\ output # EmptyTree

=============================================================================
